---- MODULE Spec2Model ----
(***************************************************************************)
(* Dual marching cubes (dominikwodniok/dualmc): the offline table          *)
(* generator (apps/gentables) and the extraction engine (include/dualmc.h) *)
(* as state machines.                                                      *)
(*                                                                         *)
(* Arrays of the C++ code are 0-based; they are modelled as functions over *)
(* 0..n-1 or as sequences read at index+1.  Bit masks are naturals and the *)
(* bit operators below work on their binary digits.                        *)
(***************************************************************************)
EXTENDS Integers, Sequences, FiniteSets, TLC

VARIABLES
    gen,              \* GenerateTablesApp: locals of the two generators and their tables
    volume,           \* the caller's volume buffer: [dims, data]
    script,           \* the caller's build calls still to be made
    results,          \* the caller's copies of the outputs of the completed builds
    dims,             \* DualMC::dims
    data,             \* DualMC::data (the borrowed buffer)
    generateManifold, \* DualMC::generateManifold
    pointToIndex,     \* DualMC::pointToIndex
    vertices,         \* output container of build
    quads,            \* output container of build
    pc,               \* position of the running build ("idle" between calls)
    call,             \* arguments of the running build: [iso, soup]
    cell,             \* loop counters <<x, y, z>> of the running build
    owners,           \* per vertex: the cell and point code it was computed for
    queries           \* the getSharedDualPointIndex calls of the running build

vars == <<gen, volume, script, results, dims, data, generateManifold,
          pointToIndex, vertices, quads, pc, call, cell, owners, queries>>

engineVars == <<volume, script, results, dims, data, generateManifold,
                pointToIndex, vertices, quads, pc, call, cell, owners, queries>>

-----------------------------------------------------------------------------
(* Bit operations on naturals.                                             *)

\* the element of a one-element set; Only({e(v) : v \in {d}}) evaluates d once
Only(S) == CHOOSE r \in S : TRUE

\* a & b for a, b < 16
AndNibble ==
    [a \in 0..15 |-> [b \in 0..15 |->
        ((a % 2) * (b % 2)) + 2 * (((a \div 2) % 2) * ((b \div 2) % 2))
        + 4 * (((a \div 4) % 2) * ((b \div 4) % 2)) + 8 * ((a \div 8) * (b \div 8))]]

\* a & b, a | b, a ^ b on masks of twelve bits (EDGE11 is the highest bit in use)
BitAnd(a, b) ==
    Only({n[a % 16][b % 16]
          + 16 * n[(a \div 16) % 16][(b \div 16) % 16]
          + 256 * n[(a \div 256) % 16][(b \div 256) % 16] : n \in {AndNibble}})

BitOr(a, b) == a + b - BitAnd(a, b)

BitXor(a, b) == a + b - 2 * BitAnd(a, b)

Shl(a, k) == a * (2 ^ k)
Shr(a, k) == a \div (2 ^ k)
Bit(m, k) == (m \div (2 ^ k)) % 2 = 1

-----------------------------------------------------------------------------
(* Edge codes and corner masks.                                            *)

EDGE0 == 1
EDGE1 == 2
EDGE2 == 4
EDGE3 == 8
EDGE4 == 16
EDGE5 == 32
EDGE6 == 64
EDGE7 == 128
EDGE8 == 256
EDGE9 == 512
EDGE10 == 1024
EDGE11 == 2048

C0 == 1
C1 == 2
C2 == 4
C3 == 8
C4 == 16
C5 == 32
C6 == 64
C7 == 128

\* CoordinateAxis::Value
NX == 0
PX == 1
NY == 2
PY == 3
NZ == 4
PZ == 5

\* number of cube configurations and entries per table row
NumCubeCodes == 256
RowLen == 4
\* the value writeManifoldTable stores for a non-problematic configuration
NotProblematic == 255

\* cornerEdges[corner][n], n = 0 (x), 1 (y), 2 (z)
cornerEdges ==
    [k \in 0..7 |->
        CASE k = 0 -> [n \in 0..2 |-> <<EDGE0, EDGE8, EDGE3>>[n + 1]]
          [] k = 1 -> [n \in 0..2 |-> <<EDGE0, EDGE9, EDGE1>>[n + 1]]
          [] k = 2 -> [n \in 0..2 |-> <<EDGE4, EDGE8, EDGE7>>[n + 1]]
          [] k = 3 -> [n \in 0..2 |-> <<EDGE4, EDGE9, EDGE5>>[n + 1]]
          [] k = 4 -> [n \in 0..2 |-> <<EDGE2, EDGE11, EDGE3>>[n + 1]]
          [] k = 5 -> [n \in 0..2 |-> <<EDGE2, EDGE10, EDGE1>>[n + 1]]
          [] k = 6 -> [n \in 0..2 |-> <<EDGE6, EDGE11, EDGE7>>[n + 1]]
          [] k = 7 -> [n \in 0..2 |-> <<EDGE6, EDGE10, EDGE5>>[n + 1]]]

\* CubeCornerCode
getMask(code) == Shl(1, code)
nX(code) == BitXor(code, 1)
nY(code) == BitXor(code, 2)
nZ(code) == BitXor(code, 4)

-----------------------------------------------------------------------------
(* Table generator, part 1: generateDualMCTable.                           *)
(* The locals of the function are fields of gen; one operator per block of *)
(* the function maps the locals before the block to the locals after it.   *)

\* std::vector::resize(256 * 4): value-initialised entries
ResizedList == [k \in 0..(NumCubeCodes * RowLen - 1) |-> 0]

\* a write through cubeDualPointCodes[k] or dualPointsList[k]
StoreEntry(s, index, value) ==
    Only({IF index \in DOMAIN t.dualPointsList
          THEN [t EXCEPT !.dualPointsList[index] = value]
          ELSE [t EXCEPT !.outOfRange = TRUE] : t \in {s}})

\* the start of generateDualMCTable up to the cube code loop
GenBegin(s) ==
    [s EXCEPT !.pc = "row", !.i = 0, !.dualPointsList = ResizedList, !.cornerStack = <<>>]

\* the codes whose mask the generator inverts
InvertedCodes == {126, 189, 219, 231}

\* GenRowStart without the inversion of the four codes
GenRowStartNoInversion(s) ==
    IF s.i >= NumCubeCodes THEN [s EXCEPT !.pc = "tableDone"]
    ELSE IF s.i = 0 \/ s.i = 255
    THEN LET z == StoreEntry(StoreEntry(StoreEntry(StoreEntry(s, 3, 0), 2, 0), 1, 0), 0, 0)
         IN  [z EXCEPT !.i = s.i + 1]
    ELSE [s EXCEPT !.pc = "corner",
                   !.cubeMask = s.i,
                   !.processedCornersMask = 0,
                   !.numDualPoints = 0,
                   !.c = 0]

\* head of one iteration of the cube code loop, up to the corner loop
GenRowStart(s) ==
    IF s.i >= NumCubeCodes THEN [s EXCEPT !.pc = "tableDone"]
    ELSE IF s.i = 0 \/ s.i = 255
    THEN LET z == StoreEntry(StoreEntry(StoreEntry(StoreEntry(s, 3, 0), 2, 0), 1, 0), 0, 0)
         IN  [z EXCEPT !.i = s.i + 1]
    ELSE [s EXCEPT !.pc = "corner",
                   !.cubeMask = IF s.i \in InvertedCodes THEN BitXor(s.i, 255) ELSE s.i,
                   !.processedCornersMask = 0,
                   !.numDualPoints = 0,
                   !.c = 0]

\* the start corner loop skipping outside corners only
GenCornerEveryInside(s) ==
    IF s.c >= 8 THEN [s EXCEPT !.pc = "pad"]
    ELSE IF BitAnd(s.cubeMask, getMask(s.c)) = 0
    THEN [s EXCEPT !.processedCornersMask = BitOr(s.processedCornersMask, getMask(s.c)),
                   !.c = s.c + 1]
    ELSE [s EXCEPT !.pc = "pop",
                   !.cornerStack = Append(s.cornerStack, s.c),
                   !.connectedCornersMask = getMask(s.c),
                   !.dualPointCode = 0]

\* head of one iteration of the start corner loop, up to the traversal loop
GenCorner(s) ==
    IF s.c >= 8 THEN [s EXCEPT !.pc = "pad"]
    ELSE IF BitAnd(getMask(s.c), s.processedCornersMask) # 0
            \/ BitAnd(s.cubeMask, getMask(s.c)) = 0
    THEN [s EXCEPT !.processedCornersMask = BitOr(s.processedCornersMask, getMask(s.c)),
                   !.c = s.c + 1]
    ELSE [s EXCEPT !.pc = "pop",
                   !.cornerStack = Append(s.cornerStack, s.c),
                   !.connectedCornersMask = getMask(s.c),
                   !.dualPointCode = 0]

\* ExamineNeighbor registering the edge towards the next neighbor
ExamineNeighborNextEdge(s, corner, n) ==
    Only({IF BitAnd(t.cubeMask, getMask(neighbor)) = 0
          THEN [t EXCEPT !.dualPointCode =
                             BitOr(t.dualPointCode, cornerEdges[corner][(n + 1) % 3])]
          ELSE IF BitAnd(t.connectedCornersMask, getMask(neighbor)) = 0
          THEN [t EXCEPT !.connectedCornersMask = BitOr(t.connectedCornersMask, getMask(neighbor)),
                         !.cornerStack = Append(t.cornerStack, neighbor)]
          ELSE t :
          t \in {s}, neighbor \in {<<nX(corner), nY(corner), nZ(corner)>>[n + 1]}})

\* the body of the neighbor loop for neighbor n of corner
ExamineNeighbor(s, corner, n) ==
    Only({IF BitAnd(t.cubeMask, getMask(neighbor)) = 0
          THEN [t EXCEPT !.dualPointCode = BitOr(t.dualPointCode, cornerEdges[corner][n])]
          ELSE IF BitAnd(t.connectedCornersMask, getMask(neighbor)) = 0
          THEN [t EXCEPT !.connectedCornersMask = BitOr(t.connectedCornersMask, getMask(neighbor)),
                         !.cornerStack = Append(t.cornerStack, neighbor)]
          ELSE t :
          t \in {s}, neighbor \in {<<nX(corner), nY(corner), nZ(corner)>>[n + 1]}})

\* one iteration of the traversal loop: pop a corner and examine its neighbors
GenPop(s) ==
    IF s.cornerStack = <<>> THEN [s EXCEPT !.pc = "store"]
    ELSE LET corner == s.cornerStack[Len(s.cornerStack)]
             popped == [s EXCEPT !.cornerStack = SubSeq(s.cornerStack, 1, Len(s.cornerStack) - 1),
                                 !.assertFailed = s.assertFailed
                                    \/ BitAnd(s.connectedCornersMask, getMask(corner)) = 0]
         IN  ExamineNeighbor(ExamineNeighbor(ExamineNeighbor(popped, corner, 0), corner, 1), corner, 2)

\* after the traversal loop: store the point code of the component
GenStore(s) ==
    LET checked == [s EXCEPT !.assertFailed = s.assertFailed
                                \/ BitAnd(s.processedCornersMask, s.connectedCornersMask) # 0
                                \/ s.dualPointCode = 0,
                             !.processedCornersMask =
                                BitOr(s.processedCornersMask, s.connectedCornersMask)]
    IN  Only({[stored EXCEPT !.pc = "corner",
                             !.outOfRange = stored.outOfRange \/ s.numDualPoints >= RowLen,
                             !.numDualPoints = s.numDualPoints + 1,
                             !.c = s.c + 1] :
              stored \in {StoreEntry(checked, s.i * RowLen + s.numDualPoints, s.dualPointCode)}})

RECURSIVE ZeroFrom(_, _)
ZeroFrom(s, d) ==
    Only({IF d >= RowLen THEN t ELSE ZeroFrom(StoreEntry(t, t.i * RowLen + d, 0), d + 1) :
          t \in {s}})

\* the end of one iteration of the cube code loop: zero the remaining entries
GenPad(s) ==
    Only({[t EXCEPT !.pc = "row", !.i = s.i + 1] : t \in {ZeroFrom(s, s.numDualPoints)}})

GenStep(s) ==
    CASE s.pc = "row" -> GenRowStart(s)
      [] s.pc = "corner" -> GenCorner(s)
      [] s.pc = "pop" -> GenPop(s)
      [] s.pc = "store" -> GenStore(s)
      [] s.pc = "pad" -> GenPad(s)

\* GenerateTablesApp before run()
GenInit ==
    [pc |-> "begin", i |-> 0, c |-> 0, cubeMask |-> 0, processedCornersMask |-> 0,
     numDualPoints |-> 0, cornerStack |-> <<>>, connectedCornersMask |-> 0,
     dualPointCode |-> 0, dualPointsList |-> <<>>, assertFailed |-> FALSE,
     outOfRange |-> FALSE,
     problematicConfigsMap |-> <<>>, rep |-> 0, case |-> 0, config |-> 0,
     ambiguousFaceDir |-> PX, regConfig |-> 0, regI |-> 0, problematicConfigs |-> <<>>]

\* the rest of an iteration of the cube code loop, up to the head of the next
RECURSIVE RunRow(_)
RunRow(s) ==
    Only({IF t.pc \in {"row", "tableDone"} THEN t ELSE RunRow(GenStep(t)) : t \in {s}})

\* row i of the table after the iteration for code i on the resized list
RowAfterGeneration(i) ==
    Only({[k \in 0..(RowLen - 1) |-> s.dualPointsList[i * RowLen + k]] :
          s \in {RunRow(GenRowStart([GenBegin(GenInit) EXCEPT !.i = i]))}})

-----------------------------------------------------------------------------
(* Table generator, part 2: generateManifoldTable and writeManifoldTable.  *)

\* CubeConfiguration::rotX, rotY, rotZ (config is a uint8_t)
ConfigRotX(config) ==
    BitOr(BitOr(Shl(BitAnd(config, BitOr(C0, C1)), 2), Shl(BitAnd(config, BitOr(C2, C3)), 4)),
          BitOr(Shr(BitAnd(config, BitOr(C4, C5)), 4), Shr(BitAnd(config, BitOr(C6, C7)), 2))) % 256

ConfigRotY(config) ==
    BitOr(BitOr(Shl(BitAnd(config, BitOr(C0, C2)), 4), Shr(BitAnd(config, BitOr(C1, C3)), 1)),
          BitOr(Shl(BitAnd(config, BitOr(C4, C6)), 1), Shr(BitAnd(config, BitOr(C5, C7)), 4))) % 256

ConfigRotZ(config) ==
    BitOr(BitOr(Shl(BitAnd(config, BitOr(C0, C4)), 1), Shl(BitAnd(config, BitOr(C1, C5)), 2)),
          BitOr(Shr(BitAnd(config, BitOr(C2, C6)), 2), Shr(BitAnd(config, BitOr(C3, C7)), 1))) % 256

\* CoordinateAxis::rotX turning the other way
AxisRotXReversed(value) == <<NX, PX, PZ, NZ, NY, PY>>[value + 1]

\* CoordinateAxis::rotX, rotY, rotZ: rotationTable[value]
AxisRotX(value) == <<NX, PX, NZ, PZ, PY, NY>>[value + 1]
AxisRotY(value) == <<PZ, NZ, NY, PY, NX, PX>>[value + 1]
AxisRotZ(value) == <<NY, PY, PX, NX, NZ, PZ>>[value + 1]

\* the two representatives of generateManifoldTable
c16 == BitOr(BitOr(BitOr(C0, C1), BitOr(C2, C6)), C7)
c19 == BitOr(BitOr(BitOr(C0, C1), BitOr(C2, C4)), BitOr(C6, C7))
Representatives == <<c16, c19>>

\* the assertion at the head of exploreConfigRotations
AmbiguousInPX(config) ==
    \E face \in {BitAnd(config, BitOr(BitOr(C1, C3), BitOr(C5, C7)))} :
        face = BitOr(C1, C7) \/ face = BitOr(C3, C5)

\* the PX, NX cases rolling about y and the PY, NY cases about x
RollOfCaseSwapped(k, config) ==
    CASE k \in {0, 2} -> ConfigRotY(config)
      [] k \in {1, 3} -> ConfigRotX(config)
      [] k \in {4, 5} -> ConfigRotZ(config)

\* the rotation registerConfigAxisRotations is called with in each of the six
\* cases of exploreConfigRotations (PX, PY, NX, NY, NZ, PZ)
RollOfCase(k, config) ==
    CASE k \in {0, 2} -> ConfigRotX(config)
      [] k \in {1, 3} -> ConfigRotY(config)
      [] k \in {4, 5} -> ConfigRotZ(config)

\* what exploreConfigRotations does to config and ambiguousFaceDir before case k
ConfigIntoCase(k, config) ==
    CASE k = 0 -> config
      [] k \in {1, 2, 3} -> ConfigRotZ(config)
      [] k = 4 -> ConfigRotX(config)
      [] k = 5 -> ConfigRotX(ConfigRotX(config))

\* ambiguousFaceDir turned once instead of twice before the PZ case
AxisIntoCaseSingleTurn(k, value) ==
    CASE k = 0 -> value
      [] k \in {1, 2, 3} -> AxisRotZ(value)
      [] k \in {4, 5} -> AxisRotX(value)

AxisIntoCase(k, value) ==
    CASE k = 0 -> value
      [] k \in {1, 2, 3} -> AxisRotZ(value)
      [] k = 4 -> AxisRotX(value)
      [] k = 5 -> AxisRotX(AxisRotX(value))

\* entry of exploreConfigRotations for representative number rep
EnterExplore(s, rep) ==
    [s EXCEPT !.pc = "register", !.rep = rep, !.case = 0,
              !.config = Representatives[rep + 1],
              !.ambiguousFaceDir = PX,
              !.regConfig = Representatives[rep + 1],
              !.regI = 0,
              !.assertFailed = s.assertFailed \/ ~AmbiguousInPX(Representatives[rep + 1])]

\* generateManifoldTable up to the first registerConfigAxisRotations
\* (writeDualMCTable, which run() calls before, only writes a file)
GenManifoldBegin(s) ==
    EnterExplore([s EXCEPT !.problematicConfigsMap = <<>>], 0)

\* problematicConfigsMap[key] = value
MapPut(map, key, value) ==
    Only({[k \in DOMAIN f \cup {key} |-> IF k = key THEN value ELSE f[k]] : f \in {map}})

\* registerConfigAxisRotations with a loop of three iterations
GenRegisterThrice(s) ==
    IF s.regI >= 3 THEN [s EXCEPT !.pc = "nextCase"]
    ELSE Only({[s EXCEPT !.regConfig = rotated,
                         !.problematicConfigsMap = MapPut(s.problematicConfigsMap, rotated,
                                                          s.ambiguousFaceDir),
                         !.regI = s.regI + 1] :
               rotated \in {RollOfCase(s.case, s.regConfig)}})

\* one iteration of the loop of registerConfigAxisRotations
GenRegister(s) ==
    IF s.regI >= 4 THEN [s EXCEPT !.pc = "nextCase"]
    ELSE Only({[s EXCEPT !.regConfig = rotated,
                         !.problematicConfigsMap = MapPut(s.problematicConfigsMap, rotated,
                                                          s.ambiguousFaceDir),
                         !.regI = s.regI + 1] :
               rotated \in {RollOfCase(s.case, s.regConfig)}})

\* return from registerConfigAxisRotations: the next case, the next representative
\* or the end of generateManifoldTable
GenNextCase(s) ==
    IF s.case < 5
    THEN Only({[s EXCEPT !.pc = "register", !.case = s.case + 1,
                         !.config = config,
                         !.ambiguousFaceDir = AxisIntoCase(s.case + 1, s.ambiguousFaceDir),
                         !.regConfig = config,
                         !.regI = 0] :
               config \in {ConfigIntoCase(s.case + 1, s.config)}})
    ELSE IF s.rep + 1 < Len(Representatives) THEN EnterExplore(s, s.rep + 1)
    ELSE [s EXCEPT !.pc = "write"]

\* writeManifoldTable: the 256 values written to manifolddualmctable.tpp
GenWriteManifold(s) ==
    [s EXCEPT !.pc = "done",
              !.problematicConfigs =
                  [i \in 0..(NumCubeCodes - 1) |->
                      IF i \in DOMAIN s.problematicConfigsMap
                      THEN s.problematicConfigsMap[i] ELSE NotProblematic]]

\* the loop of one registerConfigAxisRotations call, up to its return
RECURSIVE RunRegister(_)
RunRegister(s) ==
    IF s.pc # "register" THEN s
    ELSE Only({RunRegister(t) : t \in {GenRegister(s)}})

\* the calls of registerConfigAxisRotations from the one that s enters on, up to
\* the end of generateManifoldTable
RECURSIVE RunExplore(_)
RunExplore(s) ==
    Only({IF t.pc = "register" THEN RunExplore(t) ELSE t :
          t \in {GenNextCase(RunRegister(s))}})

\* the table writeManifoldTable writes after generateManifoldTable
TableAfterGeneration ==
    GenWriteManifold(RunExplore(GenManifoldBegin(GenInit))).problematicConfigs

-----------------------------------------------------------------------------
(* Extraction engine: the static tables.  dualmc_tables.tpp holds what the  *)
(* generator wrote; the tables are the generator's results.                *)

dualPointsList == [c \in 0..(NumCubeCodes - 1) |-> RowAfterGeneration(c)]

problematicConfigs == TableAfterGeneration

-----------------------------------------------------------------------------
(* Vertex components.  A float is modelled by the exact rational it would  *)
(* hold without rounding, a fraction <<n, d>> with d > 0, or by NonFinite   *)
(* (d = 0) for the result of a division by zero (an infinity or a NaN) and *)
(* of every operation on one.  A stored component is in lowest terms.      *)

NonFinite == <<0, 0>>

RECURSIVE Gcd(_, _)
Gcd(a, b) == IF b = 0 THEN a ELSE Gcd(b, a % b)

Abs(a) == IF a < 0 THEN -a ELSE a

\* the fraction n / d with a positive denominator
Frac(n, d) ==
    IF d = 0 THEN NonFinite
    ELSE IF d < 0 THEN <<-n, -d>>
    ELSE <<n, d>>

\* the fraction a in lowest terms
Lowest(a) ==
    IF a[2] = 0 THEN NonFinite
    ELSE LET g == Gcd(Abs(a[1]), a[2]) IN <<a[1] \div g, a[2] \div g>>

FInt(k) == <<k, 1>>

FAdd(a, b) == Frac(a[1] * b[2] + b[1] * a[2], a[2] * b[2])

FSub(a, b) == Frac(a[1] * b[2] - b[1] * a[2], a[2] * b[2])

FMul(a, b) == Frac(a[1] * b[1], a[2] * b[2])

FDiv(a, b) == Frac(a[1] * b[2], a[2] * b[1])

FLeq(a, b) == a[2] # 0 /\ b[2] # 0 /\ a[1] * b[2] <= b[1] * a[2]

-----------------------------------------------------------------------------
(* Extraction engine: per-cell primitives.                                 *)

\* DualMC::gA
gA(x, y, z) == x + dims[0] * (y + dims[1] * z)

\* data[index]: data points at the caller's buffer
Sample(index) ==
    IF data = "volume" /\ index \in DOMAIN volume.data THEN volume.data[index] ELSE 0

\* getCellCode with samples equal to iso counted as outside
getCellCodeStrict(cx, cy, cz, iso) ==
      (IF Sample(gA(cx, cy, cz)) > iso THEN C0 ELSE 0)
    + (IF Sample(gA(cx + 1, cy, cz)) > iso THEN C1 ELSE 0)
    + (IF Sample(gA(cx, cy + 1, cz)) > iso THEN C2 ELSE 0)
    + (IF Sample(gA(cx + 1, cy + 1, cz)) > iso THEN C3 ELSE 0)
    + (IF Sample(gA(cx, cy, cz + 1)) > iso THEN C4 ELSE 0)
    + (IF Sample(gA(cx + 1, cy, cz + 1)) > iso THEN C5 ELSE 0)
    + (IF Sample(gA(cx, cy + 1, cz + 1)) > iso THEN C6 ELSE 0)
    + (IF Sample(gA(cx + 1, cy + 1, cz + 1)) > iso THEN C7 ELSE 0)

\* DualMC::getCellCode
getCellCode(cx, cy, cz, iso) ==
      (IF Sample(gA(cx, cy, cz)) >= iso THEN C0 ELSE 0)
    + (IF Sample(gA(cx + 1, cy, cz)) >= iso THEN C1 ELSE 0)
    + (IF Sample(gA(cx, cy + 1, cz)) >= iso THEN C2 ELSE 0)
    + (IF Sample(gA(cx + 1, cy + 1, cz)) >= iso THEN C3 ELSE 0)
    + (IF Sample(gA(cx, cy, cz + 1)) >= iso THEN C4 ELSE 0)
    + (IF Sample(gA(cx + 1, cy, cz + 1)) >= iso THEN C5 ELSE 0)
    + (IF Sample(gA(cx, cy + 1, cz + 1)) >= iso THEN C6 ELSE 0)
    + (IF Sample(gA(cx + 1, cy + 1, cz + 1)) >= iso THEN C7 ELSE 0)

\* the lookup returning entry 0 of the row whatever the edge
FirstEntryOfRow(cubeCode, edge) == dualPointsList[cubeCode][0]

\* the lookup loop of getDualPointCode (i = 0, 1, 2, 3): the first entry of
\* dualPointsList[cubeCode] that holds edge, or 0
FirstEntryWith(cubeCode, edge) ==
    Only({IF BitAnd(row[0], edge) # 0 THEN row[0]
          ELSE IF BitAnd(row[1], edge) # 0 THEN row[1]
          ELSE IF BitAnd(row[2], edge) # 0 THEN row[2]
          ELSE IF BitAnd(row[3], edge) # 0 THEN row[3]
          ELSE 0 : row \in {dualPointsList[cubeCode]}})

\* the manifold branch inverting every problematic cube code
ManifoldCubeCodeWithoutNeighbor(cx, cy, cz, iso, cubeCode) ==
    IF problematicConfigs[cubeCode % 256] = 255 THEN cubeCode ELSE BitXor(cubeCode, 255)

\* the manifold branch never inverting the cube code
ManifoldCubeCodeNeverInverted(cx, cy, cz, iso, cubeCode) == cubeCode

\* the manifold branch looking at the neighbor on the other side
ManifoldCubeCodeOtherSide(cx, cy, cz, iso, cubeCode) ==
    LET direction == problematicConfigs[cubeCode % 256]
    IN  IF direction = 255 THEN cubeCode
        ELSE LET component == direction \div 2
                 delta == IF direction % 2 = 1 THEN -1 ELSE 1
                 neighborCoords == [k \in 0..2 |->
                     <<cx, cy, cz>>[k + 1] + (IF k = component THEN delta ELSE 0)]
             IN  IF neighborCoords[component] >= 0
                    /\ neighborCoords[component] < dims[component] - 1
                 THEN LET neighborCubeCode ==
                              getCellCode(neighborCoords[0], neighborCoords[1],
                                          neighborCoords[2], iso)
                      IN  IF problematicConfigs[neighborCubeCode % 256] # 255
                          THEN BitXor(cubeCode, 255)
                          ELSE cubeCode
                 ELSE cubeCode

\* the manifold branch of getDualPointCode: the cube code the lookup uses
ManifoldCubeCode(cx, cy, cz, iso, cubeCode) ==
    LET direction == problematicConfigs[cubeCode % 256]
    IN  IF direction = 255 THEN cubeCode
        ELSE LET component == direction \div 2
                 delta == IF direction % 2 = 1 THEN 1 ELSE -1
                 neighborCoords == [k \in 0..2 |->
                     <<cx, cy, cz>>[k + 1] + (IF k = component THEN delta ELSE 0)]
             IN  IF neighborCoords[component] >= 0
                    /\ neighborCoords[component] < dims[component] - 1
                 THEN LET neighborCubeCode ==
                              getCellCode(neighborCoords[0], neighborCoords[1],
                                          neighborCoords[2], iso)
                      IN  IF problematicConfigs[neighborCubeCode % 256] # 255
                          THEN BitXor(cubeCode, 255)
                          ELSE cubeCode
                 ELSE cubeCode

\* DualMC::getDualPointCode
getDualPointCode(cx, cy, cz, iso, edge) ==
    Only({FirstEntryWith(lookupCode, edge) :
          lookupCode \in {IF generateManifold
                          THEN ManifoldCubeCode(cx, cy, cz, iso, cubeCode)
                          ELSE cubeCode : cubeCode \in {getCellCode(cx, cy, cz, iso)}}})

\* The twelve blocks of calculateDualPoint: edge e runs along axis (0 x, 1 y, 2 z)
\* from the corner at offset off; the block adds off to p on the other two
\* axes and the interpolated fraction on the edge's own axis.
EdgeGeometry ==
    [e \in 0..11 |->
        CASE e = 0 -> [axis |-> 0, off |-> <<0, 0, 0>>]
          [] e = 1 -> [axis |-> 2, off |-> <<1, 0, 0>>]
          [] e = 2 -> [axis |-> 0, off |-> <<0, 0, 1>>]
          [] e = 3 -> [axis |-> 2, off |-> <<0, 0, 0>>]
          [] e = 4 -> [axis |-> 0, off |-> <<0, 1, 0>>]
          [] e = 5 -> [axis |-> 2, off |-> <<1, 1, 0>>]
          [] e = 6 -> [axis |-> 0, off |-> <<0, 1, 1>>]
          [] e = 7 -> [axis |-> 2, off |-> <<0, 1, 0>>]
          [] e = 8 -> [axis |-> 1, off |-> <<0, 0, 0>>]
          [] e = 9 -> [axis |-> 1, off |-> <<1, 0, 0>>]
          [] e = 10 -> [axis |-> 1, off |-> <<1, 0, 1>>]
          [] e = 11 -> [axis |-> 1, off |-> <<0, 0, 1>>]]

Unit(axis) == [k \in 1..3 |-> IF k = axis + 1 THEN 1 ELSE 0]

\* the interpolation with the denominator taken the other way round
EdgeFractionReversed(cx, cy, cz, iso, e) ==
    LET g == EdgeGeometry[e]
        u == Unit(EdgeGeometry[e].axis)
        a == Sample(gA(cx + g.off[1], cy + g.off[2], cz + g.off[3]))
        b == Sample(gA(cx + g.off[1] + u[1], cy + g.off[2] + u[2], cz + g.off[3] + u[3]))
    IN  FDiv(FInt(iso - a), FInt(a - b))

\* the interpolation on edge e of cell (cx, cy, cz):
\* ((float)iso - (float)a) / ((float)b - (float)a), a and b the samples at its ends
EdgeFraction(cx, cy, cz, iso, e) ==
    LET g == EdgeGeometry[e]
        u == Unit(EdgeGeometry[e].axis)
        a == Sample(gA(cx + g.off[1], cy + g.off[2], cz + g.off[3]))
        b == Sample(gA(cx + g.off[1] + u[1], cy + g.off[2] + u[2], cz + g.off[3] + u[3]))
    IN  FDiv(FInt(iso - a), FInt(b - a))

\* the edges whose bit is set in a point code
EdgesOf == [pointCode \in 0..4095 |-> {e \in 0..11 : Bit(pointCode, e)}]

\* the least common multiple of two positive denominators
Lcm(a, b) == (a \div Gcd(a, b)) * b

\* the sum a + f[1] + f[2] + f[3] + f[4] of an integer and four fractions, over
\* the least common denominator
FSum4(a, f) ==
    IF \E k \in 1..4 : f[k][2] = 0 THEN NonFinite
    ELSE Only({Frac(a * d + f[1][1] * (d \div f[1][2]) + f[2][1] * (d \div f[2][2])
                       + f[3][1] * (d \div f[3][2]) + f[4][1] * (d \div f[4][2]), d) :
               d \in {Lcm(Lcm(f[1][2], f[2][2]), Lcm(f[3][2], f[4][2]))}})

\* the four edges along each axis
AxisEdges == [axis \in 0..2 |-> <<<<0, 2, 4, 6>>, <<8, 9, 10, 11>>, <<1, 3, 5, 7>>>>[axis + 1]]

\* p = <<p.x, p.y, p.z>> after the twelve blocks.  The block of an edge of
\* pointCode adds the interpolated fraction to the component of p along the
\* edge and 1.0f to each other component in which the edge starts at offset 1;
\* component k of p is the sum of what the twelve blocks add to it.
SumEdges(cx, cy, cz, iso, pointCode) ==
    LET Added(e) == IF e \in EdgesOf[pointCode] THEN EdgeFraction(cx, cy, cz, iso, e)
                    ELSE FInt(0)
        Ones(k) == Cardinality({e \in EdgesOf[pointCode] :
                                   EdgeGeometry[e].axis # k - 1 /\ EdgeGeometry[e].off[k] = 1})
        Sum(k) == FSum4(Ones(k), <<Added(AxisEdges[k - 1][1]), Added(AxisEdges[k - 1][2]),
                                   Added(AxisEdges[k - 1][3]), Added(AxisEdges[k - 1][4])>>)
    IN  <<Sum(1), Sum(2), Sum(3)>>

\* the counter points after the twelve blocks
PointCount(pointCode) == Cardinality(EdgesOf[pointCode])

\* DualMC::calculateDualPoint: the vertex <<x, y, z>>
calculateDualPoint(cx, cy, cz, iso, pointCode) ==
    LET p == SumEdges(cx, cy, cz, iso, pointCode)
        invPoints == FDiv(FInt(1), FInt(PointCount(pointCode)))
    IN  <<Lowest(FAdd(FInt(cx), FMul(p[1], invPoints))),
          Lowest(FAdd(FInt(cy), FMul(p[2], invPoints))),
          Lowest(FAdd(FInt(cz), FMul(p[3], invPoints)))>>

-----------------------------------------------------------------------------
(* Extraction engine: quad emission.  The containers a build writes are    *)
(* passed along as one record m: pointToIndex, vertices, quads, the two    *)
(* logs owners and queries, and ret, the values returned by the            *)
(* getSharedDualPointIndex calls of the running block.                     *)

\* getSharedDualPointIndex without the lookup: every call appends a vertex
getSharedDualPointIndexNoLookup(m, cx, cy, cz, iso, edge) ==
    Only({[c EXCEPT !.vertices = Append(c.vertices,
                                        calculateDualPoint(cx, cy, cz, iso, key[2])),
                    !.owners = Append(c.owners,
                                      [cell |-> <<cx, cy, cz>>, code |-> key[2]]),
                    !.pointToIndex = MapPut(c.pointToIndex, key, Len(c.vertices)),
                    !.ret = Append(c.ret, Len(c.vertices)),
                    !.queries = c.queries \cup
                        {[cell |-> <<cx, cy, cz>>, edge |-> edge, key |-> key,
                          index |-> Len(c.vertices)]}] :
          c \in {m}, key \in {<<gA(cx, cy, cz), getDualPointCode(cx, cy, cz, iso, edge)>>}})

\* DualMC::getSharedDualPointIndex
getSharedDualPointIndex(m, cx, cy, cz, iso, edge) ==
    Only({IF key \in DOMAIN c.pointToIndex
          THEN [c EXCEPT !.ret = Append(c.ret, c.pointToIndex[key]),
                         !.queries = c.queries \cup
                             {[cell |-> <<cx, cy, cz>>, edge |-> edge, key |-> key,
                               index |-> c.pointToIndex[key]]}]
          ELSE [c EXCEPT !.vertices = Append(c.vertices,
                                             calculateDualPoint(cx, cy, cz, iso, key[2])),
                         !.owners = Append(c.owners,
                                           [cell |-> <<cx, cy, cz>>, code |-> key[2]]),
                         !.pointToIndex = MapPut(c.pointToIndex, key, Len(c.vertices)),
                         !.ret = Append(c.ret, Len(c.vertices)),
                         !.queries = c.queries \cup
                             {[cell |-> <<cx, cy, cz>>, edge |-> edge, key |-> key,
                               index |-> Len(c.vertices)]}] :
          c \in {m}, key \in {<<gA(cx, cy, cz), getDualPointCode(cx, cy, cz, iso, edge)>>}})

\* the guard with || in place of &&
EdgeGuardEither(axis, x, y, z) ==
    CASE axis = 0 -> z > 0 \/ y > 0
      [] axis = 1 -> z > 0 \/ x > 0
      [] axis = 2 -> x > 0 \/ y > 0

\* the guard of the block of buildSharedVerticesQuads and of buildQuadSoup for
\* the x edge (axis 0), the y edge (1) and the z edge (2) of cell (x, y, z)
EdgeGuard(axis, x, y, z) ==
    CASE axis = 0 -> z > 0 /\ y > 0
      [] axis = 1 -> z > 0 /\ x > 0
      [] axis = 2 -> x > 0 /\ y > 0

\* entering and exiting of that block
Entering(axis, x, y, z, iso) ==
    \E u \in {Unit(axis)} :
        Sample(gA(x, y, z)) < iso /\ Sample(gA(x + u[1], y + u[2], z + u[3])) >= iso

\* exiting without the test of the second sample
ExitingFirstSampleOnly(axis, x, y, z, iso) == Sample(gA(x, y, z)) >= iso

Exiting(axis, x, y, z, iso) ==
    \E u \in {Unit(axis)} :
        Sample(gA(x, y, z)) >= iso /\ Sample(gA(x + u[1], y + u[2], z + u[3])) < iso

\* the winding test of the x edge used for every axis
ForwardWindingAsForX(axis, x, y, z, iso) == Entering(axis, x, y, z, iso)

\* the condition under which the block emits the four points in the order 0,1,2,3
\* (otherwise 0,3,2,1)
ForwardWinding(axis, x, y, z, iso) ==
    IF axis = 0 THEN Entering(axis, x, y, z, iso) ELSE Exiting(axis, x, y, z, iso)

\* the order in which the block emits its four points (1-based)
Order(axis, x, y, z, iso) ==
    IF ForwardWinding(axis, x, y, z, iso) THEN <<1, 2, 3, 4>> ELSE <<1, 4, 3, 2>>

\* the calls of a block with the second call repeating the first
SharedFanRepeated(axis, x, y, z) ==
    CASE axis = 0 -> << <<x, y, z, EDGE0>>, <<x, y, z, EDGE0>>,
                        <<x, y - 1, z - 1, EDGE6>>, <<x, y - 1, z, EDGE4>> >>
      [] axis = 1 -> << <<x, y, z, EDGE8>>, <<x, y, z, EDGE8>>,
                        <<x - 1, y, z - 1, EDGE10>>, <<x - 1, y, z, EDGE9>> >>
      [] axis = 2 -> << <<x, y, z, EDGE3>>, <<x, y, z, EDGE3>>,
                        <<x - 1, y - 1, z, EDGE5>>, <<x, y - 1, z, EDGE7>> >>

\* the calls of a soup block with the third point taken from the first cell
SoupFanThirdFromFirst(axis, x, y, z) ==
    CASE axis = 0 -> << <<x, y, z, EDGE0>>, <<x, y, z - 1, EDGE2>>,
                        <<x, y, z, EDGE0>>, <<x, y - 1, z, EDGE4>> >>
      [] axis = 1 -> << <<x, y, z, EDGE8>>, <<x, y, z - 1, EDGE11>>,
                        <<x, y, z, EDGE8>>, <<x - 1, y, z, EDGE9>> >>
      [] axis = 2 -> << <<x, y, z, EDGE3>>, <<x - 1, y, z, EDGE1>>,
                        <<x, y, z, EDGE3>>, <<x, y - 1, z, EDGE7>> >>

\* the calls of a block with EDGE6, EDGE10, EDGE5 asked of the second cell
SharedFanDiagonalEdge(axis, x, y, z) ==
    CASE axis = 0 -> << <<x, y, z, EDGE0>>, <<x, y, z - 1, EDGE6>>,
                        <<x, y - 1, z - 1, EDGE6>>, <<x, y - 1, z, EDGE4>> >>
      [] axis = 1 -> << <<x, y, z, EDGE8>>, <<x, y, z - 1, EDGE10>>,
                        <<x - 1, y, z - 1, EDGE10>>, <<x - 1, y, z, EDGE9>> >>
      [] axis = 2 -> << <<x, y, z, EDGE3>>, <<x - 1, y, z, EDGE5>>,
                        <<x - 1, y - 1, z, EDGE5>>, <<x, y - 1, z, EDGE7>> >>

\* buildSharedVerticesQuads: the four getSharedDualPointIndex calls of a block
SharedFan(axis, x, y, z) ==
    CASE axis = 0 -> << <<x, y, z, EDGE0>>, <<x, y, z - 1, EDGE2>>,
                        <<x, y - 1, z - 1, EDGE6>>, <<x, y - 1, z, EDGE4>> >>
      [] axis = 1 -> << <<x, y, z, EDGE8>>, <<x, y, z - 1, EDGE11>>,
                        <<x - 1, y, z - 1, EDGE10>>, <<x - 1, y, z, EDGE9>> >>
      [] axis = 2 -> << <<x, y, z, EDGE3>>, <<x - 1, y, z, EDGE1>>,
                        <<x - 1, y - 1, z, EDGE5>>, <<x, y - 1, z, EDGE7>> >>

\* buildQuadSoup: the four getDualPointCode/calculateDualPoint calls of a block
SoupFan(axis, x, y, z) ==
    CASE axis = 0 -> << <<x, y, z, EDGE0>>, <<x, y, z - 1, EDGE2>>,
                        <<x, y - 1, z - 1, EDGE6>>, <<x, y - 1, z, EDGE4>> >>
      [] axis = 1 -> << <<x, y, z, EDGE8>>, <<x, y, z - 1, EDGE11>>,
                        <<x - 1, y, z - 1, EDGE10>>, <<x - 1, y, z, EDGE9>> >>
      [] axis = 2 -> << <<x, y, z, EDGE3>>, <<x - 1, y, z, EDGE1>>,
                        <<x - 1, y - 1, z, EDGE5>>, <<x, y - 1, z, EDGE7>> >>

\* the calls k..4 of the fan f, in turn: i0, i1, i2, i3 are left in ret
RECURSIVE SharedCalls(_, _, _, _)
SharedCalls(m, f, iso, k) ==
    IF k > 4 THEN m
    ELSE Only({SharedCalls(c, f, iso, k + 1) :
               c \in {getSharedDualPointIndex(m, f[k][1], f[k][2], f[k][3], iso, f[k][4])}})

\* one edge block of buildSharedVerticesQuads
SharedEdge(m, axis, x, y, z, iso) ==
    IF EdgeGuard(axis, x, y, z)
       /\ (Entering(axis, x, y, z, iso) \/ Exiting(axis, x, y, z, iso))
    THEN Only({[c EXCEPT !.quads = Append(c.quads, [k \in 1..4 |-> c.ret[order[k]]]),
                         !.ret = <<>>] :
               c \in {SharedCalls(m, SharedFan(axis, x, y, z), iso, 1)},
               order \in {Order(axis, x, y, z, iso)}})
    ELSE m

\* vertex0..vertex3 of a block of buildQuadSoup: code and vertex of fan entry q
SoupPoint(q, iso) ==
    Only({[cell |-> <<q[1], q[2], q[3]>>, code |-> pointCode,
           vertex |-> calculateDualPoint(q[1], q[2], q[3], iso, pointCode)] :
          pointCode \in {getDualPointCode(q[1], q[2], q[3], iso, q[4])}})

\* one edge block of buildQuadSoup
SoupEdge(m, axis, x, y, z, iso) ==
    IF EdgeGuard(axis, x, y, z)
       /\ (Entering(axis, x, y, z, iso) \/ Exiting(axis, x, y, z, iso))
    THEN Only({[c EXCEPT !.vertices = c.vertices \o [k \in 1..4 |-> point[order[k]].vertex],
                         !.owners = c.owners \o
                            [k \in 1..4 |-> [cell |-> point[order[k]].cell,
                                             code |-> point[order[k]].code]]] :
               c \in {m},
               point \in {[k \in 1..4 |-> SoupPoint(SoupFan(axis, x, y, z)[k], iso)]},
               order \in {Order(axis, x, y, z, iso)}})
    ELSE m

\* the body of one loop iteration: the blocks of the x, y and z edge (axis..2)
RECURSIVE SharedBlocks(_, _, _, _, _, _)
SharedBlocks(m, axis, x, y, z, iso) ==
    IF axis > 2 THEN m
    ELSE Only({SharedBlocks(c, axis + 1, x, y, z, iso) :
               c \in {SharedEdge(m, axis, x, y, z, iso)}})

RECURSIVE SoupBlocks(_, _, _, _, _, _)
SoupBlocks(m, axis, x, y, z, iso) ==
    IF axis > 2 THEN m
    ELSE Only({SoupBlocks(c, axis + 1, x, y, z, iso) :
               c \in {SoupEdge(m, axis, x, y, z, iso)}})

\* the quads of buildQuadSoup with the loop counter starting at 1
SoupQuadListFromOne(numVertices) ==
    [i \in 1..(numVertices \div 4) |-> <<i * 4, i * 4 + 1, i * 4 + 2, i * 4 + 3>>]

\* the quads buildQuadSoup generates after its loops
SoupQuadList(numVertices) ==
    [i \in 1..(numVertices \div 4) |->
        <<(i - 1) * 4, (i - 1) * 4 + 1, (i - 1) * 4 + 2, (i - 1) * 4 + 3>>]

\* the loop bounds taken one larger
ReducedByOne(k) == dims[k] - 1

\* the loop bounds reducedX, reducedY, reducedZ
Reduced(k) == dims[k] - 2

\* the loops entered whatever the extents
FirstCellUnguarded(dm) == <<0, 0, 0>>

\* the loop counters <<x, y, z>> of the first iteration, <<>> if there is none
FirstCell(dm) ==
    IF dm[0] - 2 > 0 /\ dm[1] - 2 > 0 /\ dm[2] - 2 > 0 THEN <<0, 0, 0>> ELSE <<>>

\* the loop counters of the iteration after (x, y, z), <<>> if there is none
NextCell(x, y, z) ==
    IF x + 1 < Reduced(0) THEN <<x + 1, y, z>>
    ELSE IF y + 1 < Reduced(1) THEN <<0, y + 1, z>>
    ELSE IF z + 1 < Reduced(2) THEN <<0, 0, z + 1>>
    ELSE <<>>

-----------------------------------------------------------------------------
(* The engine's operations.  A caller holds one volume and calls build     *)
(* once per entry of script; build runs one loop iteration per step.       *)

Containers ==
    [pointToIndex |-> pointToIndex, vertices |-> vertices, quads |-> quads,
     owners |-> owners, queries |-> queries, ret |-> <<>>]

\* build with buildSharedVerticesQuads keeping the map of the build before
BuildKeepingMap ==
    /\ pc = "idle"
    /\ script # <<>>
    /\ \E r \in {Head(script)} :
           /\ dims' = volume.dims
           /\ data' = "volume"
           /\ generateManifold' = r.manifold
           /\ vertices' = <<>>
           /\ quads' = <<>>
           /\ call' = r
           /\ pointToIndex' = pointToIndex
           /\ cell' = FirstCell(volume.dims)
           /\ pc' = IF FirstCell(volume.dims) # <<>> THEN "loop"
                    ELSE IF r.soup THEN "soupQuads" ELSE "return"
    /\ script' = Tail(script)
    /\ owners' = <<>>
    /\ queries' = {}
    /\ UNCHANGED <<gen, volume, results>>

\* DualMC::build up to the loops of buildQuadSoup or buildSharedVerticesQuads
Build ==
    /\ pc = "idle"
    /\ script # <<>>
    /\ \E r \in {Head(script)} :
           /\ dims' = volume.dims
           /\ data' = "volume"
           /\ generateManifold' = r.manifold
           /\ vertices' = <<>>
           /\ quads' = <<>>
           /\ call' = r
           /\ pointToIndex' = IF r.soup THEN pointToIndex ELSE <<>>
           /\ cell' = FirstCell(volume.dims)
           /\ pc' = IF FirstCell(volume.dims) # <<>> THEN "loop"
                    ELSE IF r.soup THEN "soupQuads" ELSE "return"
    /\ script' = Tail(script)
    /\ owners' = <<>>
    /\ queries' = {}
    /\ UNCHANGED <<gen, volume, results>>

\* one iteration of the loops of buildSharedVerticesQuads
SharedCell ==
    /\ pc = "loop"
    /\ ~call.soup
    /\ \E x \in {cell[1]}, y \in {cell[2]}, z \in {cell[3]} :
       \E m \in {SharedBlocks(Containers, 0, x, y, z, call.iso)} :
           /\ pointToIndex' = m.pointToIndex
           /\ vertices' = m.vertices
           /\ quads' = m.quads
           /\ owners' = m.owners
           /\ queries' = m.queries
           /\ cell' = NextCell(x, y, z)
           /\ pc' = IF NextCell(x, y, z) = <<>> THEN "return" ELSE "loop"
    /\ UNCHANGED <<gen, volume, script, results, dims, data, generateManifold, call>>

\* one iteration of the loops of buildQuadSoup
SoupCell ==
    /\ pc = "loop"
    /\ call.soup
    /\ \E x \in {cell[1]}, y \in {cell[2]}, z \in {cell[3]} :
       \E m \in {SoupBlocks(Containers, 0, x, y, z, call.iso)} :
           /\ vertices' = m.vertices
           /\ owners' = m.owners
           /\ cell' = NextCell(x, y, z)
           /\ pc' = IF NextCell(x, y, z) = <<>> THEN "soupQuads" ELSE "loop"
    /\ UNCHANGED <<gen, volume, script, results, dims, data, generateManifold,
                   pointToIndex, quads, call, queries>>

\* the end of buildQuadSoup: one quad per four vertices
SoupQuads ==
    /\ pc = "soupQuads"
    /\ quads' = quads \o SoupQuadList(Len(vertices))
    /\ pc' = "return"
    /\ UNCHANGED <<gen, volume, script, results, dims, data, generateManifold,
                   pointToIndex, vertices, call, cell, owners, queries>>

\* build returns; the caller keeps the two containers
Return ==
    /\ pc = "return"
    /\ results' = Append(results, [iso |-> call.iso, manifold |-> call.manifold,
                                   soup |-> call.soup,
                                   vertices |-> vertices, quads |-> quads])
    /\ pc' = "idle"
    /\ UNCHANGED <<gen, volume, script, dims, data, generateManifold,
                   pointToIndex, vertices, quads, call, cell, owners, queries>>

-----------------------------------------------------------------------------
(* The volumes and calls the engine is run on.                             *)

\* extent of the cubic volumes
Dim == 5
\* the iso value of the calls
Iso == 2

\* the position of sample index in a volume of extents dm
PosOf(dm, index) ==
    <<index % dm[0], (index \div dm[0]) % dm[1], index \div (dm[0] * dm[1])>>

\* sample values: below Iso outside the pattern, at or above it inside; the
\* value alternates with the position so that interpolation fractions vary
OutsideValue(p) == (p[1] + p[2] + p[3]) % Iso
InsideValue(p) == Iso + ((p[1] + 2 * p[2] + p[3]) % 2)

MakeVolume(dm, inside) ==
    [dims |-> dm,
     data |-> [index \in 0..(dm[0] * dm[1] * dm[2] - 1) |->
                  IF PosOf(dm, index) \in inside
                  THEN InsideValue(PosOf(dm, index))
                  ELSE OutsideValue(PosOf(dm, index))]]

CubeDims == [k \in 0..2 |-> Dim]
AllPositions == {<<x, y, z>> : x \in 0..(Dim - 1), y \in 0..(Dim - 1), z \in 0..(Dim - 1)}

\* The 12 samples of the two cells (1,1,1) and (1,1,1) + Unit(axis): the four
\* of their common face and the eight others.
FacePositions(axis) ==
    {p \in AllPositions : p[axis + 1] = 2
        /\ \A k \in 1..3 : k # axis + 1 => p[k] \in {1, 2}}
OtherPositions(axis) ==
    {p \in AllPositions : p[axis + 1] \in {1, 3}
        /\ \A k \in 1..3 : k # axis + 1 => p[k] \in {1, 2}}

\* two diagonally opposite samples of the common face
FaceDiagonals(axis) ==
    {d \in SUBSET FacePositions(axis) :
        /\ Cardinality(d) = 2
        /\ \A p, q \in d : p # q => \A k \in 1..3 : k # axis + 1 => p[k] # q[k]}

\* inside patterns: the common face of the two cells is ambiguous, the other
\* eight samples of the two cells are arbitrary, the rest of the volume is
\* outside
PairPatterns ==
    UNION {{d \cup s : d \in FaceDiagonals(axis), s \in SUBSET OtherPositions(axis)} :
           axis \in 0..2}

Volumes == {MakeVolume(CubeDims, s) : s \in PairPatterns}

\* the caller builds each volume in all four modes
AllModes ==
    << [iso |-> Iso, manifold |-> TRUE, soup |-> FALSE],
       [iso |-> Iso, manifold |-> TRUE, soup |-> TRUE],
       [iso |-> Iso, manifold |-> FALSE, soup |-> FALSE],
       [iso |-> Iso, manifold |-> FALSE, soup |-> TRUE] >>

\* a DualMC object before its first build
EngineIdle ==
    /\ results = <<>>
    /\ dims = [k \in 0..2 |-> 0]
    /\ data = "null"
    /\ generateManifold = FALSE
    /\ pointToIndex = <<>>
    /\ vertices = <<>>
    /\ quads = <<>>
    /\ pc = "idle"
    /\ call = [iso |-> 0, manifold |-> FALSE, soup |-> FALSE]
    /\ cell = <<>>
    /\ owners = <<>>
    /\ queries = {}

Init ==
    /\ gen = GenInit
    /\ volume \in Volumes
    /\ script = AllModes
    /\ EngineIdle

Next == Build \/ SharedCell \/ SoupCell \/ SoupQuads \/ Return

Spec == Init /\ [][Next]_vars

-----------------------------------------------------------------------------
(* The table generator's run(): generateDualMCTable, one iteration of its  *)
(* cube code loop per step, then generateManifoldTable, one iteration of   *)
(* registerConfigAxisRotations per step, and writeManifoldTable.           *)

generateDualMCTable ==
    /\ gen.pc = "begin"
    /\ gen' = GenBegin(gen)
    /\ UNCHANGED engineVars

\* one iteration of the cube code loop, or its exit
CubeCodeLoop ==
    /\ gen.pc = "row"
    /\ gen' = RunRow(GenRowStart(gen))
    /\ UNCHANGED engineVars

generateManifoldTable ==
    /\ gen.pc = "tableDone"
    /\ gen' = GenManifoldBegin(gen)
    /\ UNCHANGED engineVars

registerConfigAxisRotations ==
    /\ gen.pc = "register"
    /\ gen' = GenRegister(gen)
    /\ UNCHANGED engineVars

exploreConfigRotations ==
    /\ gen.pc = "nextCase"
    /\ gen' = GenNextCase(gen)
    /\ UNCHANGED engineVars

writeManifoldTable ==
    /\ gen.pc = "write"
    /\ gen' = GenWriteManifold(gen)
    /\ UNCHANGED engineVars

\* the generator runs on its own; no engine object exists
InitGen ==
    /\ gen = GenInit
    /\ volume = MakeVolume(CubeDims, {})
    /\ script = <<>>
    /\ EngineIdle

NextGen ==
    \/ generateDualMCTable
    \/ CubeCodeLoop
    \/ generateManifoldTable
    \/ registerConfigAxisRotations
    \/ exploreConfigRotations
    \/ writeManifoldTable

SpecGen == InitGen /\ [][NextGen]_vars

-----------------------------------------------------------------------------
(* Properties of the generated tables.  The notions they are stated in     *)
(* (corners of an edge, straddling edges, connected components, rotations  *)
(* of the cube, faces) are defined here from the geometry of the cube,     *)
(* with corner k at (k % 2, (k \div 2) % 2, k \div 4).                     *)

CornerPos(k) == <<k % 2, (k \div 2) % 2, k \div 4>>
CornerAt(p) == p[1] + 2 * p[2] + 4 * p[3]
InsideCorners(c) == {k \in 0..7 : Bit(c, k)}
MaskOf(corners) == CHOOSE c \in 0..255 : InsideCorners(c) = corners

\* the two corners edge e joins
Endpoints(e) ==
    {CornerAt(EdgeGeometry[e].off),
     CornerAt([k \in 1..3 |-> EdgeGeometry[e].off[k] + Unit(EdgeGeometry[e].axis)[k]])}

\* the edges with one corner inside and one corner outside in c
Straddling(c) ==
    {e \in 0..11 : \E a, b \in Endpoints(e) : Bit(c, a) /\ ~Bit(c, b)}

\* corners joined by a cube edge
Adjacent(a, b) == \E k \in 1..3 : CornerAt(Unit(k - 1)) = BitXor(a, b)

\* the corners of the set inside that paths of cube edges within inside
\* join to a corner of the set reached
RECURSIVE Grow(_, _)
Grow(reached, inside) ==
    LET more == reached \cup {b \in inside : \E a \in reached : Adjacent(a, b)}
    IN  IF more = reached THEN reached ELSE Grow(more, inside)

\* the connected components of the inside corners of c
Components(c) == {Grow({k}, InsideCorners(c)) : k \in InsideCorners(c)}

\* row c of the generator's table, and its non-zero entries
GenRow(c) == [k \in 0..(RowLen - 1) |-> gen.dualPointsList[c * RowLen + k]]
NonZeroEntries(c) == {k \in 0..(RowLen - 1) : GenRow(c)[k] # 0}

\* generateDualMCTable has returned
TableGenerated == gen.pc \in {"tableDone", "register", "nextCase", "write", "done"}
\* writeManifoldTable has returned
ManifoldTableWritten == gen.pc = "done"

\* the rows looked at in a state: the row the cube code loop has just
\* completed, and the whole table when generateDualMCTable returns
CompletedRows ==
    IF gen.pc = "row" THEN {gen.i - 1} \cap (0..255)
    ELSE IF gen.pc = "tableDone" THEN 0..255
    ELSE {}

\* the table is not written after generateDualMCTable has returned
TableKept ==
    [][TableGenerated => gen'.dualPointsList = gen.dualPointsList]_vars

\* C7: in the table generateDualMCTable produces, rows 0 and 255 are four
\* zeros and, for every cube code c, every bit of every entry of row c is an
\* edge whose two corners differ in inside/outside membership in c, the
\* entries of row c are pairwise disjoint bit sets, and their union is the set
\* of all edges straddling in c.
C7_RowsPartitionStraddlingEdges ==
    \A c \in CompletedRows :
        /\ c \in {0, 255} => \A k \in 0..3 : GenRow(c)[k] = 0
        /\ \A k \in 0..3 :
               /\ GenRow(c)[k] \in 0..4095
               /\ EdgesOf[GenRow(c)[k]] \subseteq Straddling(c)
        /\ \A j, k \in 0..3 :
               j # k => EdgesOf[GenRow(c)[j]] \cap EdgesOf[GenRow(c)[k]] = {}
        /\ UNION {EdgesOf[GenRow(c)[k]] : k \in 0..3} = Straddling(c)

\* the table is complete and holds a row of three entries that split nine
\* straddling edges
C7_Witness ==
    /\ gen.pc = "tableDone"
    /\ \E c \in 1..254 :
           /\ Cardinality(NonZeroEntries(c)) = 3
           /\ Cardinality(Straddling(c)) = 9
           /\ UNION {EdgesOf[GenRow(c)[k]] : k \in 0..3} = Straddling(c)

\* the configuration whose components row c is meant to list
Primed(c) == IF c \in {126, 189, 219, 231} THEN BitXor(c, 255) ELSE c

\* C8 as stated: every row c has between 0 and 4 non-zero entries, none
\* exactly for c in {0, 255}; for every c the number of non-zero entries is
\* the number of connected components of the inside corners of c', c' = c XOR
\* 0xFF for c in {126, 189, 219, 231} and c' = c otherwise; for those four
\* codes row c equals row c XOR 0xFF.
C8_AsStated ==
    /\ \A c \in CompletedRows :
           /\ Cardinality(NonZeroEntries(c)) \in 0..4
           /\ NonZeroEntries(c) = {} <=> c \in {0, 255}
           /\ Cardinality(NonZeroEntries(c)) = Cardinality(Components(Primed(c)))
    /\ gen.pc = "tableDone" =>
           \A c \in {126, 189, 219, 231} : GenRow(c) = GenRow(BitXor(c, 255))

\* C8 amended: as C8, with the count of non-zero entries equal to the number
\* of connected components of the inside corners of c' for every c other
\* than 255; row 255 has no non-zero entry while its eight inside corners
\* form one component.
C8_CountsComponentsExceptFull ==
    /\ \A c \in CompletedRows :
           /\ Cardinality(NonZeroEntries(c)) \in 0..4
           /\ NonZeroEntries(c) = {} <=> c \in {0, 255}
           /\ c # 255 =>
                  Cardinality(NonZeroEntries(c)) = Cardinality(Components(Primed(c)))
           /\ c = 255 => Cardinality(Components(c)) = 1
    /\ gen.pc = "tableDone" =>
           \A c \in {126, 189, 219, 231} : GenRow(c) = GenRow(BitXor(c, 255))

\* the table is complete, holds a row of four entries, and the row of an
\* inverted code lists the two components of its complement
C8_Witness ==
    /\ gen.pc = "tableDone"
    /\ \E c \in 1..254 : Cardinality(NonZeroEntries(c)) = 4
    /\ Cardinality(NonZeroEntries(126)) = 2
    /\ Cardinality(Components(126)) = 1
    /\ NonZeroEntries(255) = {}

\* The 24 proper rotations of the cube: coordinate i of the image of a corner
\* is coordinate perm[i] of the corner, mirrored where flip[i] = 1; the
\* rotation is proper when the permutation and the mirrorings together keep
\* the orientation.
EvenPerms == {<<1, 2, 3>>, <<2, 3, 1>>, <<3, 1, 2>>}
OddPerms == {<<2, 1, 3>>, <<1, 3, 2>>, <<3, 2, 1>>}
ProperRotations ==
    {r \in [perm : EvenPerms \cup OddPerms, flip : [1..3 -> {0, 1}]] :
        (r.perm \in EvenPerms) <=> ((r.flip[1] + r.flip[2] + r.flip[3]) % 2 = 0)}

RotatedCorner(r, k) ==
    CornerAt([i \in 1..3 |-> (CornerPos(k)[r.perm[i]] + r.flip[i]) % 2])
Rotated(r, c) == MaskOf({RotatedCorner(r, k) : k \in InsideCorners(c)})
RotationsOf(c) == {Rotated(r, c) : r \in ProperRotations}

\* the four corners of the face in direction d (0..5: -x, +x, -y, +y, -z, +z)
FaceCorners(d) == {k \in 0..7 : CornerPos(k)[(d \div 2) + 1] = d % 2}
\* two corners of one face that differ in both coordinates of the face
Diagonal(a, b) == Cardinality({i \in 1..3 : CornerPos(a)[i] # CornerPos(b)[i]}) = 2
\* the faces of c on which exactly two diagonally opposite corners are inside
AmbiguousFaces(c) ==
    {d \in 0..5 :
        \E a, b \in FaceCorners(d) :
            /\ Diagonal(a, b)
            /\ InsideCorners(c) \cap FaceCorners(d) = {a, b}}

\* the representatives by their inside corners
RepC16 == MaskOf({0, 1, 2, 6, 7})
RepC19 == MaskOf({0, 1, 2, 4, 6, 7})

\* C9: in the table written by writeManifoldTable, problematicConfigs[c] is
\* not 255 if and only if c is the image of the C16 representative or of the
\* C19 representative under one of the 24 proper rotations of the cube, and
\* for every such c the stored direction is in 0..5 and names the only face
\* of c on which exactly two diagonally opposite corners are inside.
C9_ProblematicAreRotationsWithFace ==
    ManifoldTableWritten =>
        \A c \in 0..255 :
            /\ gen.problematicConfigs[c] # 255
                   <=> c \in RotationsOf(RepC16) \cup RotationsOf(RepC19)
            /\ gen.problematicConfigs[c] # 255 =>
                   /\ gen.problematicConfigs[c] \in 0..5
                   /\ AmbiguousFaces(c) = {gen.problematicConfigs[c]}

\* the table is written; it holds 24 rotations of C16 and 12 of C19, and one
\* of them has its ambiguous face in direction -z
C9_Witness ==
    /\ ManifoldTableWritten
    /\ Cardinality(ProperRotations) = 24
    /\ Cardinality({c \in RotationsOf(RepC16) : gen.problematicConfigs[c] # 255}) = 24
    /\ Cardinality({c \in RotationsOf(RepC19) : gen.problematicConfigs[c] # 255}) = 12
    /\ \E c \in RotationsOf(RepC19) : gen.problematicConfigs[c] = NZ

\* the masks whose inside corners on the +x face are exactly {C1, C7} or
\* exactly {C3, C5}
PatternInPX == {c \in 0..255 : InsideCorners(c) \cap FaceCorners(1) \in {{1, 7}, {3, 5}}}

\* C10 as stated: for every cube mask c whose inside corners on the +x face
\* are exactly {C1, C7} or exactly {C3, C5}, the generated manifold table has
\* problematicConfigs[c] other than 255.
C10_AsStated ==
    ManifoldTableWritten => \A c \in PatternInPX : gen.problematicConfigs[c] # 255

\* C10 amended: for every cube mask c whose inside corners on the +x face are
\* exactly {C1, C7} or exactly {C3, C5}, problematicConfigs[c] is other than
\* 255 if and only if these two corners lie in one connected component of
\* the inside corners of c, and then problematicConfigs[c] is 1 (+x); every
\* mask with problematicConfigs[c] = 1 has this pattern on its +x face.
C10_PatternAndConnectedDiagonal ==
    ManifoldTableWritten =>
        /\ \A c \in PatternInPX :
               /\ gen.problematicConfigs[c] # 255
                      <=> \E comp \in Components(c) :
                              InsideCorners(c) \cap FaceCorners(1) \subseteq comp
               /\ gen.problematicConfigs[c] \in {PX, 255}
        /\ \A c \in 0..255 : gen.problematicConfigs[c] = PX => c \in PatternInPX

\* the table is written; the mask with only C1 and C7 inside has the pattern
\* and the value 255, and six masks with the pattern have the value +x
C10_Witness ==
    /\ ManifoldTableWritten
    /\ MaskOf({1, 7}) \in PatternInPX
    /\ gen.problematicConfigs[MaskOf({1, 7})] = 255
    /\ Cardinality(PatternInPX) = 32
    /\ Cardinality({c \in PatternInPX : gen.problematicConfigs[c] = PX}) = 6

-----------------------------------------------------------------------------
(* Properties of the meshes build returns.                                 *)

\* the mesh edges of a quad: consecutive indices, the i3-i0 pair included
QuadEdges(q) == {{q[k], q[(k % 4) + 1]} : k \in 1..4}
MeshEdges(qs) == UNION {QuadEdges(qs[i]) : i \in DOMAIN qs}
QuadsOn(qs, e) == {i \in DOMAIN qs : e \in QuadEdges(qs[i])}
\* no mesh edge belongs to more than two quads
EdgesInTwoQuadsAtMost(qs) ==
    \A e \in MeshEdges(qs) : Cardinality(QuadsOn(qs, e)) <= 2

\* the loops of the running build have ended
BuildDone == pc = "return"
\* the cells the loops of build visit
LoopCells ==
    {<<x, y, z>> : x \in 0..(Reduced(0) - 1), y \in 0..(Reduced(1) - 1),
                   z \in 0..(Reduced(2) - 1)}
\* the cells whose cube code the manifold branch of getDualPointCode inverts
InvertedCells ==
    {p \in LoopCells :
        ManifoldCubeCode(p[1], p[2], p[3], call.iso,
                         getCellCode(p[1], p[2], p[3], call.iso))
            # getCellCode(p[1], p[2], p[3], call.iso)}

\* C1: with generateManifold = true and shared-vertex output, every mesh edge
\* of the result (an unordered pair of vertex indices consecutive in some
\* quad, the i3-i0 pair included) belongs to at most two quads.
C1_ManifoldSharedEdgesInTwoQuads ==
    (BuildDone /\ call.manifold /\ ~call.soup) => EdgesInTwoQuadsAtMost(quads)

\* a manifold shared build has ended on a volume in which the manifold branch
\* inverts two cells, and one of its mesh edges belongs to two quads
C1_Witness ==
    /\ BuildDone /\ call.manifold /\ ~call.soup
    /\ Cardinality(InvertedCells) = 2
    /\ \E e \in MeshEdges(quads) : Cardinality(QuadsOn(quads, e)) = 2

\* the rotations of the two representatives
C16Codes == RotationsOf(RepC16)
C19Codes == RotationsOf(RepC19)

\* the cells (x, y, z) that are a C16 configuration with the ambiguous face in
\* +x, whose +x neighbour is a C16 configuration too, the four grid edges of
\* the common face being edges for which the loops of build emit quads
C16PairsInPX ==
    {p \in LoopCells :
        /\ p[1] + 1 <= Reduced(0) - 1
        /\ p[2] >= 1 /\ p[2] + 1 <= Reduced(1) - 1
        /\ p[3] >= 1 /\ p[3] + 1 <= Reduced(2) - 1
        /\ getCellCode(p[1], p[2], p[3], call.iso) \in C16Codes
        /\ AmbiguousFaces(getCellCode(p[1], p[2], p[3], call.iso)) = {PX}
        /\ getCellCode(p[1] + 1, p[2], p[3], call.iso) \in C16Codes}

\* C2: for a volume with a C16 cell whose +x neighbour is a C16 configuration
\* sharing the ambiguous face, the four grid edges of that face inside the
\* emission domain, a shared build with generateManifold = false returns a
\* mesh edge shared by more than two quads, and a shared build of the same
\* volume with generateManifold = true returns none.
C2_C16PairNonManifoldUnlessCorrected ==
    (BuildDone /\ ~call.soup /\ C16PairsInPX # {}) =>
        IF call.manifold THEN EdgesInTwoQuadsAtMost(quads)
        ELSE \E e \in MeshEdges(quads) : Cardinality(QuadsOn(quads, e)) > 2

\* a shared build without the correction has ended on such a volume, with a
\* mesh edge in four quads
C2_Witness ==
    /\ BuildDone /\ ~call.soup /\ ~call.manifold
    /\ C16PairsInPX # {}
    /\ \E e \in MeshEdges(quads) : Cardinality(QuadsOn(quads, e)) = 4

\* vertex number i (from 1) of the running build lies in the unit cube rooted
\* at the cell it was computed for
InOwningCell(i) ==
    \A k \in 1..3 :
        /\ FLeq(FInt(owners[i].cell[k]), vertices[i][k])
        /\ FLeq(vertices[i][k], FInt(owners[i].cell[k] + 1))

\* the interpolation fractions of the edges of vertex number i
FractionsOf(i) ==
    {EdgeFraction(owners[i].cell[1], owners[i].cell[2], owners[i].cell[3], call.iso, e) :
        e \in EdgesOf[owners[i].code]}

\* C3: every vertex emitted by build, in both modes and with both manifold
\* settings, for the dual point of cell (cx, cy, cz) has cx <= v.x <= cx + 1,
\* cy <= v.y <= cy + 1 and cz <= v.z <= cz + 1, and each interpolation
\* fraction (iso - a) / (b - a) of its edges lies in [0, 1].
C3_VertexInOwningCell ==
    BuildDone =>
        /\ Len(owners) = Len(vertices)
        /\ \A i \in DOMAIN vertices :
               /\ InOwningCell(i)
               /\ \A t \in FractionsOf(i) : FLeq(FInt(0), t) /\ FLeq(t, FInt(1))

\* a build has ended with a vertex strictly inside its cell in one component
\* and on the boundary of its cell in another, and with edges whose fraction
\* is 1 and edges whose fraction is strictly between 0 and 1
C3_Witness ==
    /\ BuildDone
    /\ \E i \in DOMAIN vertices :
           /\ InOwningCell(i)
           /\ \E k \in 1..3 : ~FLeq(vertices[i][k], FInt(owners[i].cell[k]))
                              /\ ~FLeq(FInt(owners[i].cell[k] + 1), vertices[i][k])
           /\ \E t \in FractionsOf(i) : t = FInt(1)
           /\ \E t \in FractionsOf(i) : ~FLeq(t, FInt(0)) /\ ~FLeq(FInt(1), t)

\* C4: in every quad emitted by build, in shared mode and in soup mode, the
\* four indices i0, i1, i2, i3 are pairwise different.
C4_QuadIndicesDistinct ==
    BuildDone =>
        \A i \in DOMAIN quads : \A j, k \in 1..4 : j # k => quads[i][j] # quads[i][k]

\* a shared build has ended with two quads that share a vertex
C4_Witness ==
    /\ BuildDone /\ ~call.soup
    /\ \E i, j \in DOMAIN quads :
           /\ i # j
           /\ \E k, l \in 1..4 : quads[i][k] = quads[j][l]
           /\ Cardinality({quads[i][k] : k \in 1..4}) = 4

\* C5: during one shared-mode build, any two getSharedDualPointIndex queries
\* that resolve to the same key (linearized cell id and dual point code)
\* return the same vertex index, and the vertex stored at that index is the
\* dual point computed for that cell and code.
C5_SameKeySameVertex ==
    (BuildDone /\ ~call.soup) =>
        /\ \A q, r \in queries : q.key = r.key => q.index = r.index
        /\ \A q \in queries :
               /\ q.key = <<gA(q.cell[1], q.cell[2], q.cell[3]),
                            getDualPointCode(q.cell[1], q.cell[2], q.cell[3], call.iso, q.edge)>>
               /\ q.index \in 0..(Len(vertices) - 1)
               /\ vertices[q.index + 1] =
                      calculateDualPoint(q.cell[1], q.cell[2], q.cell[3], call.iso, q.key[2])

\* a shared build has ended in which two queries for different edges of one
\* cell resolved to the same key, and two queries of one cell to different keys
C5_Witness ==
    /\ BuildDone /\ ~call.soup
    /\ \E q, r \in queries : q.cell = r.cell /\ q.edge # r.edge /\ q.key = r.key
    /\ \E q, r \in queries : q.cell = r.cell /\ q.key # r.key

\* the triangles (i0, i1, i2), (i0, i2, i3) of the quads of a result, each
\* index replaced by the coordinates of its vertex
Triangles(r) ==
    UNION {{<<r.vertices[r.quads[i][1] + 1], r.vertices[r.quads[i][2] + 1],
              r.vertices[r.quads[i][3] + 1]>>,
            <<r.vertices[r.quads[i][1] + 1], r.vertices[r.quads[i][3] + 1],
              r.vertices[r.quads[i][4] + 1]>>} : i \in DOMAIN r.quads}

\* the pairs of returned results for the same iso value and manifold flag, one
\* of shared mode and one of soup mode, the later of them returned last
LatestPairs ==
    IF pc = "idle" /\ results # <<>>
    THEN {<<i, Len(results)>> : i \in {j \in DOMAIN results :
              /\ results[j].iso = results[Len(results)].iso
              /\ results[j].manifold = results[Len(results)].manifold
              /\ results[j].soup # results[Len(results)].soup}}
    ELSE {}

\* C6: for the same volume, extents, iso value and manifold flag, soup mode
\* and shared mode emit the same number of quads, and the set of triangles
\* (i0, i1, i2), (i0, i2, i3) of all quads, each index replaced by the
\* coordinates of its vertex, is the same in the two modes.
C6_SoupAndSharedSameGeometry ==
    \A w \in LatestPairs :
        /\ Len(results[w[1]].quads) = Len(results[w[2]].quads)
        /\ Triangles(results[w[1]]) = Triangles(results[w[2]])

\* a soup build has returned after the shared build of the same volume and
\* flag, with the same triangles from more vertices
C6_Witness ==
    \E w \in LatestPairs :
        /\ Len(results[w[1]].quads) >= 2
        /\ Len(results[w[1]].vertices) < Len(results[w[2]].vertices)
        /\ Triangles(results[w[1]]) = Triangles(results[w[2]])

-----------------------------------------------------------------------------
(* Builds of single volumes: uniform fields, a single voxel, a half space  *)
(* and volumes with an extent below 2, samples of an unsigned 8-bit volume. *)

\* std::numeric_limits<uint8_t>::max()
MaxSample == 255

Extents(a, b, c) == [k \in 0..2 |-> <<a, b, c>>[k + 1]]

\* the positions of a volume of extents dm
PositionsOf(dm) ==
    {<<x, y, z>> : x \in 0..(dm[0] - 1), y \in 0..(dm[1] - 1), z \in 0..(dm[2] - 1)}

\* a volume with the maximum sample at the positions of inside and 0 elsewhere
CaseVolume(dm, inside) ==
    [dims |-> dm,
     data |-> [index \in 0..(dm[0] * dm[1] * dm[2] - 1) |->
                  IF PosOf(dm, index) \in inside THEN MaxSample ELSE 0]]

UniformVolumes ==
    {CaseVolume(Extents(4, 4, 4), {}),
     CaseVolume(Extents(4, 4, 4), PositionsOf(Extents(4, 4, 4)))}

VoxelVolumes ==
    {CaseVolume(Extents(4, 4, 4), {<<2, 2, 2>>}),
     CaseVolume(Extents(4, 4, 4), {<<1, 1, 1>>}),
     CaseVolume(Extents(5, 5, 5), {<<2, 2, 2>>})}

PlaneVolumes ==
    {CaseVolume(Extents(8, 8, 8), {p \in PositionsOf(Extents(8, 8, 8)) : p[3] >= 4})}

\* volumes with an extent below 2; every second sample is the maximum
ThinVolumes ==
    {CaseVolume(dm, {p \in PositionsOf(dm) : (p[1] + p[2] + p[3]) % 2 = 0}) :
        dm \in {Extents(1, 4, 4), Extents(4, 1, 4), Extents(4, 4, 0),
                Extents(1, 1, 1), Extents(0, 0, 0)}}

\* volumes with C16 configurations.  In the first, cells (1,1,1) and (2,1,1)
\* share their ambiguous face and cell (3,3,1) has its ambiguous face on the
\* +x boundary of the volume; in the second, cell (0,1,1) has it on the -x
\* boundary.  The samples at x = 0 of the first and at x = 3 of the second are
\* those gA reaches from one step beyond the boundary.
DiagonalVolumes ==
    {CaseVolume(Extents(5, 5, 5),
                {<<1, 1, 1>>, <<2, 1, 1>>, <<1, 2, 1>>, <<1, 2, 2>>, <<2, 2, 2>>,
                 <<3, 1, 1>>, <<3, 1, 2>>, <<3, 2, 2>>,
                 <<3, 3, 1>>, <<4, 3, 1>>, <<3, 4, 1>>, <<3, 4, 2>>, <<4, 4, 2>>,
                 <<0, 4, 1>>, <<0, 4, 2>>, <<0, 0, 3>>}),
     CaseVolume(Extents(4, 4, 4),
                {<<0, 1, 1>>, <<1, 1, 1>>, <<1, 1, 2>>, <<0, 2, 2>>, <<1, 2, 2>>,
                 <<3, 0, 1>>, <<3, 1, 1>>, <<3, 1, 2>>})}

CaseVolumes ==
    UniformVolumes \cup VoxelVolumes \cup PlaneVolumes \cup ThinVolumes \cup DiagonalVolumes

\* the iso values of the calls: 1, max / 2 and max
CaseIsos == {1, MaxSample \div 2, MaxSample}

\* the four modes of build for one iso value
ModesAt(iso) ==
    << [iso |-> iso, manifold |-> FALSE, soup |-> FALSE],
       [iso |-> iso, manifold |-> TRUE, soup |-> FALSE],
       [iso |-> iso, manifold |-> FALSE, soup |-> TRUE],
       [iso |-> iso, manifold |-> TRUE, soup |-> TRUE] >>

\* what the caller's containers may hold before the first build
PriorContent ==
    {[vertices |-> <<>>, quads |-> <<>>],
     [vertices |-> << <<FInt(9), FInt(9), FInt(9)>> >>, quads |-> << <<0, 0, 0, 0>> >>]}

InitCases ==
    /\ gen = GenInit
    /\ volume \in CaseVolumes
    /\ \E iso \in CaseIsos : script = ModesAt(iso)
    /\ \E prior \in PriorContent : vertices = prior.vertices /\ quads = prior.quads
    /\ results = <<>>
    /\ dims = [k \in 0..2 |-> 0]
    /\ data = "null"
    /\ generateManifold = FALSE
    /\ pointToIndex = <<>>
    /\ pc = "idle"
    /\ call = [iso |-> 0, manifold |-> FALSE, soup |-> FALSE]
    /\ cell = <<>>
    /\ owners = <<>>
    /\ queries = {}

SpecCases == InitCases /\ [][Next]_vars

-----------------------------------------------------------------------------
(* Several builds on one DualMC object: between two builds the caller may  *)
(* load another volume and leave anything in the two containers.           *)

SeqVolumes ==
    {CaseVolume(Extents(4, 4, 4), {}),
     CaseVolume(Extents(4, 4, 4), {<<1, 1, 1>>}),
     CaseVolume(Extents(4, 4, 4), {<<1, 1, 1>>, <<2, 2, 1>>}),
     CaseVolume(Extents(4, 4, 4), {<<1, 1, 1>>, <<2, 1, 1>>, <<1, 2, 2>>})}

SeqCalls ==
    {[iso |-> iso, manifold |-> manifold, soup |-> soup] :
        iso \in {1, MaxSample}, manifold \in BOOLEAN, soup \in BOOLEAN}

\* the caller loads a volume between two builds
loadRawFile ==
    /\ pc = "idle"
    /\ script # <<>>
    /\ results # <<>>
    /\ volume' \in SeqVolumes
    /\ \E prior \in PriorContent \cup {[vertices |-> vertices, quads |-> quads]} :
           vertices' = prior.vertices /\ quads' = prior.quads
    /\ UNCHANGED <<gen, script, results, dims, data, generateManifold, pointToIndex,
                   pc, call, cell, owners, queries>>

InitSeq ==
    /\ gen = GenInit
    /\ volume \in SeqVolumes
    /\ script \in {<<a, b>> : a \in SeqCalls, b \in SeqCalls}
    /\ \E prior \in PriorContent : vertices = prior.vertices /\ quads = prior.quads
    /\ results = <<>>
    /\ dims = [k \in 0..2 |-> 0]
    /\ data = "null"
    /\ generateManifold = FALSE
    /\ pointToIndex = <<>>
    /\ pc = "idle"
    /\ call = [iso |-> 0, manifold |-> FALSE, soup |-> FALSE]
    /\ cell = <<>>
    /\ owners = <<>>
    /\ queries = {}

NextSeq == Build \/ SharedCell \/ SoupCell \/ SoupQuads \/ Return \/ loadRawFile

SpecSeq == InitSeq /\ [][NextSeq]_vars

\* the containers of a DualMC object that has built nothing, with empty outputs
FreshContainers ==
    [pointToIndex |-> <<>>, vertices |-> <<>>, quads |-> <<>>,
     owners |-> <<>>, queries |-> {}, ret |-> <<>>]

\* the loops of the running call from cell c on, on the containers m
RECURSIVE LoopsFrom(_, _)
LoopsFrom(m, c) ==
    IF c = <<>> THEN m
    ELSE Only({LoopsFrom(n, NextCell(c[1], c[2], c[3])) :
               n \in {IF call.soup THEN SoupBlocks(m, 0, c[1], c[2], c[3], call.iso)
                      ELSE SharedBlocks(m, 0, c[1], c[2], c[3], call.iso)}})

\* what a fresh DualMC object returns for the arguments of the running call
FreshBuild ==
    Only({[vertices |-> m.vertices,
           quads |-> IF call.soup THEN SoupQuadList(Len(m.vertices)) ELSE m.quads,
           pointToIndex |-> m.pointToIndex] :
          m \in {LoopsFrom(FreshContainers, FirstCell(dims))}})

\* C11: for any sequence of build calls on one DualMC object (any mix of
\* volumes, iso values, manifold and soup flags, any prior content of the
\* containers), the vertices and quads each call returns are those a fresh
\* object returns for the same arguments; in shared mode the map holds the
\* entries of this build only.
C11_BuildDependsOnArgumentsOnly ==
    BuildDone =>
        /\ vertices = FreshBuild.vertices
        /\ quads = FreshBuild.quads
        /\ ~call.soup => pointToIndex = FreshBuild.pointToIndex

\* the second build of a sequence returns a mesh in shared mode, after a
\* shared build that has left entries in the map and vertices in the container
C11_Witness ==
    /\ BuildDone /\ ~call.soup
    /\ Len(results) = 1
    /\ ~results[1].soup /\ results[1].quads # <<>>
    /\ quads # <<>> /\ quads # results[1].quads

-----------------------------------------------------------------------------
(* Properties of single builds.                                            *)

\* C12: after any build with generateSoup = true the number of vertices is
\* four times the number of quads, and quad k (k from 0) is
\* (4k, 4k + 1, 4k + 2, 4k + 3).
C12_SoupQuadsNumberVertices ==
    (BuildDone /\ call.soup) =>
        /\ Len(vertices) = 4 * Len(quads)
        /\ \A k \in 0..(Len(quads) - 1) :
               quads[k + 1] = <<4 * k, 4 * k + 1, 4 * k + 2, 4 * k + 3>>

\* a soup build has ended with six quads and twenty-four vertices
C12_Witness ==
    /\ BuildDone /\ call.soup
    /\ Len(quads) = 6
    /\ quads[6] = <<20, 21, 22, 23>>

\* every sample of the caller's volume is classified the same way against iso
UniformAgainst(iso) ==
    \/ \A index \in DOMAIN volume.data : volume.data[index] < iso
    \/ \A index \in DOMAIN volume.data : volume.data[index] >= iso

\* C13: if every sample of the volume is classified the same way against iso
\* (all below iso, or all at or above it), build returns no vertex and no
\* quad, in both output modes and with either manifold setting; so for the
\* 4x4x4 volume of zeros and the 4x4x4 volume of maximum samples with iso = 1.
C13_UniformVolumeEmptyMesh ==
    /\ (BuildDone /\ UniformAgainst(call.iso)) => vertices = <<>> /\ quads = <<>>
    /\ \A i \in DOMAIN results :
           UniformAgainst(results[i].iso) =>
               results[i].vertices = <<>> /\ results[i].quads = <<>>

\* the four builds of the 4x4x4 volume of maximum samples with iso = 1 have
\* returned, all of them empty
C13_Witness ==
    /\ volume = CaseVolume(Extents(4, 4, 4), PositionsOf(Extents(4, 4, 4)))
    /\ Len(results) = 4
    /\ \A i \in 1..4 : results[i].iso = 1 /\ results[i].vertices = <<>>
                       /\ results[i].quads = <<>>
    /\ {<<results[i].manifold, results[i].soup>> : i \in 1..4} = BOOLEAN \X BOOLEAN

\* the running build is the shared build without the manifold correction, at
\* iso = max / 2
PlainSharedAtHalf == ~call.soup /\ ~call.manifold /\ call.iso = MaxSample \div 2

\* the mesh is six quads on eight vertices, every mesh edge in exactly two quads
ClosedCube ==
    /\ Len(quads) = 6
    /\ Len(vertices) = 8
    /\ \A e \in MeshEdges(quads) : Cardinality(QuadsOn(quads, e)) = 2

\* C14: for the 4x4x4 volume whose sample at (2,2,2) is the maximum and whose
\* other samples are zero, build with iso = max / 2, generateManifold = false
\* and generateSoup = false returns 6 quads and 8 vertices forming a closed
\* mesh around the voxel (every mesh edge shared by exactly two quads).
C14_AsStated ==
    (BuildDone /\ PlainSharedAtHalf
        /\ volume = CaseVolume(Extents(4, 4, 4), {<<2, 2, 2>>})) => ClosedCube

\* the z component of (b - a) x (c - b) for the first three vertices a, b, c
\* of quad number i (from 1), in emission order
NormalZ(i) ==
    LET a == vertices[quads[i][1] + 1]
        b == vertices[quads[i][2] + 1]
        c == vertices[quads[i][3] + 1]
    IN  FSub(FMul(FSub(b[1], a[1]), FSub(c[2], b[2])),
             FMul(FSub(b[2], a[2]), FSub(c[1], b[1])))

\* the running build is a shared build at iso = max / 2 of the 8x8x8 volume
\* whose samples with z >= 4 are the maximum and whose other samples are zero
PlaneBuild ==
    /\ ~call.soup /\ call.iso = MaxSample \div 2
    /\ volume \in PlaneVolumes

\* C15 as stated: for that volume, build in shared mode with iso = max / 2
\* returns exactly 49 quads and 64 vertices, all vertices at z = 3.5, every
\* quad wound so that its right-hand-rule normal points in +z.
C15_AsStated ==
    (BuildDone /\ PlaneBuild) =>
        /\ Len(quads) = 49
        /\ Len(vertices) = 64
        /\ \A i \in DOMAIN vertices : vertices[i][3] = <<7, 2>>
        /\ \A i \in DOMAIN quads : NormalZ(i)[1] > 0

\* C15 amended: for that volume, build in shared mode with iso = max / 2
\* returns exactly 25 quads and 36 vertices, all vertices at z = 3 + iso / max
\* (3 + 127/255 for 8-bit samples), every quad wound so that its
\* right-hand-rule normal points in -z, from the inside samples to the
\* outside samples.
C15_PlaneLayerOfReducedDomain ==
    (BuildDone /\ PlaneBuild) =>
        /\ Len(quads) = 25
        /\ Len(vertices) = 36
        /\ \A i \in DOMAIN vertices :
               vertices[i][3] = Lowest(<<3 * MaxSample + MaxSample \div 2, MaxSample>>)
        /\ \A i \in DOMAIN quads : NormalZ(i)[2] > 0 /\ NormalZ(i)[1] < 0

\* the shared build of the half space has ended with quads, all of its
\* vertices strictly between z = 3 and z = 3.5
C15_Witness ==
    /\ BuildDone /\ PlaneBuild
    /\ quads # <<>>
    /\ \A i \in DOMAIN vertices :
           /\ ~FLeq(vertices[i][3], FInt(3))
           /\ ~FLeq(<<7, 2>>, vertices[i][3])

\* the cells of the four corners of quad number i (from 1), in emission order
QuadCells(i) == [k \in 1..4 |-> owners[quads[i][k] + 1].cell]

\* the axis of the grid edge the four cells of quad i surround (the coordinate
\* they agree in), and the low end of that edge (the highest of the four cells)
QuadAxis(i) == CHOOSE a \in 1..3 : \A k \in 1..4 : QuadCells(i)[k][a] = QuadCells(i)[1][a]
QuadRoot(i) ==
    [a \in 1..3 |-> CHOOSE v \in {QuadCells(i)[k][a] : k \in 1..4} :
                        \A k \in 1..4 : QuadCells(i)[k][a] <= v]

Cross(a, b) ==
    <<a[2] * b[3] - a[3] * b[2], a[3] * b[1] - a[1] * b[3], a[1] * b[2] - a[2] * b[1]>>

\* the right-hand-rule normal of the cycle of the four cells of quad i
CellNormal(i) ==
    LET c == QuadCells(i)
    IN  Cross([a \in 1..3 |-> c[2][a] - c[1][a]], [a \in 1..3 |-> c[3][a] - c[2][a]])

\* the direction along the edge of quad i from its inside end to its outside end
InsideToOutside(i) ==
    LET r == QuadRoot(i)
        u == Unit(QuadAxis(i) - 1)
    IN  IF Sample(gA(r[1], r[2], r[3])) >= call.iso
        THEN <<u[1], u[2], u[3]>>
        ELSE <<-u[1], -u[2], -u[3]>>

\* C16: for every quad emitted for a crossed x, y or z edge, in both output
\* modes, the cycle of its four cells in emission order is counter-clockwise
\* seen from the outside end of the edge: its right-hand-rule normal points
\* along the edge from the inside sample (>= iso) to the outside sample.
C16_QuadsWoundInsideToOutside ==
    BuildDone =>
        \A i \in DOMAIN quads :
            /\ \A k \in 1..4 : quads[i][k] + 1 \in DOMAIN owners
            /\ CellNormal(i) = InsideToOutside(i)

\* a build has ended with quads whose normals point in all six directions
C16_Witness ==
    /\ BuildDone
    /\ {CellNormal(i) : i \in DOMAIN quads} =
           {<<1, 0, 0>>, <<-1, 0, 0>>, <<0, 1, 0>>, <<0, -1, 0>>, <<0, 0, 1>>, <<0, 0, -1>>}

\* the grid edges of the volume of the running build: <<axis, x, y, z>> for the
\* edge from sample (x, y, z) to its neighbor along axis
GridEdges ==
    {e \in {<<axis, p[1], p[2], p[3]>> : axis \in 0..2, p \in PositionsOf(dims)} :
        e[e[1] + 2] + 1 <= dims[e[1]] - 1}

\* the two samples of the edge straddle iso
Crossed(e) == Entering(e[1], e[2], e[3], e[4], call.iso) \/ Exiting(e[1], e[2], e[3], e[4], call.iso)

\* the four cubes around the edge, each with the code of the edge in it
CubesAround(e) == SharedFan(e[1], e[2], e[3], e[4])

\* all four cubes around the edge are cells of the volume
CubesInVolume(e) ==
    \A k \in 1..4 : \A a \in 1..3 :
        CubesAround(e)[k][a] >= 0 /\ CubesAround(e)[k][a] <= dims[a - 1] - 2

\* the quads of the running build emitted for the edge
QuadsFor(e) ==
    {i \in DOMAIN quads : QuadAxis(i) = e[1] + 1 /\ QuadRoot(i) = <<e[2], e[3], e[4]>>}

\* the corners of quad i are the dual points of the four cubes around the edge
CornersAreDualPoints(i, e) ==
    {vertices[quads[i][k] + 1] : k \in 1..4} =
        {calculateDualPoint(c[1], c[2], c[3], call.iso,
                            getDualPointCode(c[1], c[2], c[3], call.iso, c[4])) :
            c \in {CubesAround(e)[k] : k \in 1..4}}

\* C17: for every axis-aligned voxel edge whose two samples straddle iso and
\* whose four incident cubes all lie inside the volume, build emits exactly
\* one quad, whose four corners are the dual points of those four cubes; no
\* quad is emitted for an edge that does not straddle iso.
C17_AsStated ==
    BuildDone =>
        \A e \in GridEdges :
            /\ (Crossed(e) /\ CubesInVolume(e)) =>
                   /\ Cardinality(QuadsFor(e)) = 1
                   /\ \A i \in QuadsFor(e) : CornersAreDualPoints(i, e)
            /\ ~Crossed(e) => QuadsFor(e) = {}

\* an extent of the caller's volume is below 2
ThinVolume == \E k \in 0..2 : volume.dims[k] < 2

\* C18: if any of dimX, dimY, dimZ is smaller than 2, build returns with
\* empty vertices and empty quads (also when the containers were not empty on
\* entry) and reads no sample of the volume: no iteration of the loops, which
\* hold every read of data, is run.
C18_ThinVolumeEmptyMesh ==
    ThinVolume =>
        /\ pc # "loop"
        /\ pc \in {"soupQuads", "return"} => vertices = <<>> /\ dims = volume.dims
        /\ pc = "return" => quads = <<>>
        /\ owners = <<>> /\ queries = {} /\ pointToIndex = <<>>
        /\ \A i \in DOMAIN results :
               results[i].vertices = <<>> /\ results[i].quads = <<>>

\* the four builds of a volume of extents 1 x 4 x 4 that holds samples at or
\* above iso and samples below it have returned
C18_Witness ==
    /\ volume.dims = Extents(1, 4, 4)
    /\ \E i, j \in DOMAIN volume.data :
           volume.data[i] >= call.iso /\ volume.data[j] < call.iso
    /\ pc = "idle"
    /\ Len(results) = 4
    /\ \A i \in 1..4 : results[i].quads = <<>>

-----------------------------------------------------------------------------
(* The linearized cell id for large volumes.  gA computes in int32_t; the   *)
(* model's gA above is exact, which is the same for the small volumes of    *)
(* the other specifications.  Here a natural number is a pair <<hi, lo>>    *)
(* of 16-bit halves, hi * 2^16 + lo, so that values up to 2^47 are exact.   *)

Half == 2 ^ 16

\* a + m * t exactly, for a < 2^16, m < 2^15 and a pair t with t[1] < 2^16
MulAdd(a, m, t) ==
    Only({<<m * t[1] + (lo \div Half), lo % Half>> : lo \in {m * t[2] + a}})

\* the mathematical value of x + dimX * (y + dimY * z)
ExactIndex(dm, c) == MulAdd(c[1], dm[0], MulAdd(c[2], dm[1], <<0, c[3]>>))

\* size_t(dimX) * size_t(dimY) * size_t(dimZ) of loadRawFile
expectedFileSize(dm) == MulAdd(0, dm[0], MulAdd(0, dm[1], <<0, dm[2]>>))

\* loadRawFile accepts the volume: expectedFileSize < 0xffffffff
Accepted(dm) ==
    /\ expectedFileSize(dm)[1] < Half
    /\ expectedFileSize(dm) # <<Half - 1, Half - 1>>

\* the value does not fit in int32_t
Overflows(v) == v[1] >= Half \div 2

\* What gA returns: the value when it fits in int32_t.  Otherwise the signed
\* arithmetic has overflowed, which is undefined: the build either wraps to
\* the two's complement value (negative when its top bit is set) or traps.
gAOutcomes(dm, c) ==
    Only({IF ~Overflows(v)
          THEN {[kind |-> "value", negative |-> FALSE, bits |-> v]}
          ELSE {[kind |-> "wrapped", negative |-> (v[1] % Half) >= Half \div 2,
                 bits |-> <<v[1] % Half, v[2]>>],
                [kind |-> "trap", negative |-> FALSE, bits |-> <<0, 0>>]} :
          v \in {ExactIndex(dm, c)}})

\* extents offered to the loader
OfferedExtents ==
    {Extents(2, 2, 2), Extents(4, 4, 4), Extents(1024, 1024, 1024),
     Extents(2048, 1024, 1024), Extents(2048, 2048, 1023), Extents(2048, 2048, 1024)}

\* positions of a volume: the first two and the last two along each axis
CornerPositions(dm) ==
    {<<x, y, z>> : x \in {0, 1, dm[0] - 2, dm[0] - 1}, y \in {0, 1, dm[1] - 2, dm[1] - 1},
                   z \in {0, 1, dm[2] - 2, dm[2] - 1}}

\* build has set dims for an accepted volume; the samples are not modelled
InitIndex ==
    /\ gen = GenInit
    /\ \E dm \in {d \in OfferedExtents : Accepted(d)} :
           /\ volume = [dims |-> dm, data |-> <<>>]
           /\ dims = dm
           /\ cell \in CornerPositions(dm)
    /\ script = <<>>
    /\ results = <<>>
    /\ data = "volume"
    /\ generateManifold = FALSE
    /\ pointToIndex = <<>>
    /\ vertices = <<>>
    /\ quads = <<>>
    /\ pc = "key"
    /\ call = [iso |-> 1, manifold |-> FALSE, soup |-> FALSE]
    /\ owners = <<>>
    /\ queries = {}

\* key.linearizedCellID = gA(cx, cy, cz) of getSharedDualPointIndex
linearizedCellID ==
    /\ pc = "key"
    /\ \E id \in gAOutcomes(dims, cell) :
           queries' = {[cell |-> cell, linearizedCellID |-> id]}
    /\ pc' = "keyed"
    /\ UNCHANGED <<gen, volume, script, results, dims, data, generateManifold,
                   pointToIndex, vertices, quads, call, cell, owners>>

NextIndex == linearizedCellID

SpecIndex == InitIndex /\ [][NextIndex]_vars

\* C19: for every volume whose sample count fits in a 32-bit unsigned
\* integer (the bound the loader enforces), the index x + dimX * (y + dimY * z)
\* that gA computes in 32-bit signed arithmetic equals the mathematical value
\* for every in-volume (x, y, z): it never overflows, is never negative, and
\* distinct cells get distinct ids.
C19_AsStated ==
    /\ \A q \in queries :
           /\ q.linearizedCellID.kind = "value"
           /\ ~q.linearizedCellID.negative
           /\ q.linearizedCellID.bits = ExactIndex(dims, q.cell)
    /\ pc = "keyed" =>
           \A c, d \in CornerPositions(dims) :
               \A i \in gAOutcomes(dims, c), j \in gAOutcomes(dims, d) :
                   (c # d /\ i.kind # "trap" /\ j.kind # "trap") => i.bits # j.bits

-----------------------------------------------------------------------------
(* The cube code and the edge tests of a loop iteration.                   *)

\* the sample at corner k of cell c
CornerSample(c, k) ==
    Sample(gA(c[1] + CornerPos(k)[1], c[2] + CornerPos(k)[2], c[3] + CornerPos(k)[3]))

\* C20: getCellCode(cx, cy, cz, iso) is the 8-bit mask whose bit k is set if
\* and only if the sample at (cx + (k&1), cy + ((k>>1)&1), cz + ((k>>2)&1)) is
\* >= iso, a sample equal to iso counting as inside; entering and exiting
\* classify the two samples of an edge the same way, so build treats the x, y
\* or z edge of a cell as crossed exactly when bit 0 and bit 1, 2 or 4 of the
\* cell's code differ.
C20_CellCodeAndEdgeTestsAgree ==
    pc = "loop" =>
        LET code == getCellCode(cell[1], cell[2], cell[3], call.iso)
        IN  /\ code \in 0..255
            /\ \A k \in 0..7 : Bit(code, k) <=> CornerSample(cell, k) >= call.iso
            /\ \A axis \in 0..2 :
                   LET far == CornerAt(Unit(axis))
                   IN  /\ Entering(axis, cell[1], cell[2], cell[3], call.iso)
                            <=> (~Bit(code, 0) /\ Bit(code, far))
                       /\ Exiting(axis, cell[1], cell[2], cell[3], call.iso)
                            <=> (Bit(code, 0) /\ ~Bit(code, far))

\* a loop iteration is at a cell whose x edge is entering with the inside
\* sample equal to iso
C20_Witness ==
    /\ pc = "loop"
    /\ CornerSample(cell, 1) = call.iso
    /\ CornerSample(cell, 0) < call.iso
    /\ Entering(0, cell[1], cell[2], cell[3], call.iso)
    /\ Bit(getCellCode(cell[1], cell[2], cell[3], call.iso), 1)

-----------------------------------------------------------------------------
(* The dual point code of a cell.                                          *)

\* the cells of the volume of the running build: cube corners at 0..dims-1
VolumeCells ==
    {<<x, y, z>> : x \in 0..(dims[0] - 2), y \in 0..(dims[1] - 2), z \in 0..(dims[2] - 2)}

\* the cell one step from cell c in direction d: axis d >> 1, +1 if d is odd
StepCell(c, d) ==
    [k \in 1..3 |-> c[k] + (IF k = (d \div 2) + 1 THEN (IF d % 2 = 1 THEN 1 ELSE -1) ELSE 0)]

\* the direction stored for the cell code of cell c
DirectionAt(c, iso) == problematicConfigs[getCellCode(c[1], c[2], c[3], iso)]

\* cell c has a problematic code, the cell one step in the stored direction
\* has its coordinate on that axis in [0, dims - 2], and its code is
\* problematic too
PairedAt(c, iso) ==
    /\ DirectionAt(c, iso) # NotProblematic
    /\ \E d \in {DirectionAt(c, iso)} :
           /\ StepCell(c, d)[(d \div 2) + 1] \in 0..(dims[d \div 2] - 2)
           /\ DirectionAt(StepCell(c, d), iso) # NotProblematic

\* the first of the four entries of row c of dualPointsList that contains edge
\* bit e, or 0
FirstOfRow(c, e) ==
    LET hits == {k \in 0..3 : Bit(dualPointsList[c][k], e)}
    IN  IF hits = {} THEN 0
        ELSE dualPointsList[c][CHOOSE k \in hits : \A j \in hits : k <= j]

\* build has set dims, data and generateManifold and is at its first cell
BuildEntered == pc = "loop" /\ cell = <<0, 0, 0>>

\* C21: getDualPointCode(cx, cy, cz, iso, edge) returns the first of the four
\* entries of dualPointsList[c*] that contains the edge bit, or 0 if none does,
\* where c* is the cell code with all eight bits flipped exactly when
\* generateManifold is set, the cell code is problematic with direction d, the
\* cell one step along axis d >> 1 (+1 if d is odd, -1 if even) has its
\* coordinate on that axis in [0, dims - 2] and that cell's code is
\* problematic too; otherwise c* is the cell code.  Stated for every cell of
\* the volume and every edge, and for every query of a shared build.
C21_DualPointCodeLookup ==
    /\ BuildEntered =>
           \A c \in VolumeCells : \A e \in 0..11 :
               getDualPointCode(c[1], c[2], c[3], call.iso, 2 ^ e) =
                   FirstOfRow(IF generateManifold /\ PairedAt(c, call.iso)
                              THEN 255 - getCellCode(c[1], c[2], c[3], call.iso)
                              ELSE getCellCode(c[1], c[2], c[3], call.iso), e)
    /\ (BuildDone /\ ~call.soup) =>
           \A q \in queries : \E e \in 0..11 :
               /\ q.edge = 2 ^ e
               /\ q.key[2] =
                      FirstOfRow(IF generateManifold /\ PairedAt(q.cell, call.iso)
                                 THEN 255 - getCellCode(q.cell[1], q.cell[2], q.cell[3], call.iso)
                                 ELSE getCellCode(q.cell[1], q.cell[2], q.cell[3], call.iso), e)

\* a manifold build is at its first cell on a volume with a pair of
\* problematic cells, whose codes are looked up inverted, and a problematic
\* cell whose ambiguous face lies on the boundary of the volume, whose code is
\* not; some lookups return 0
C21_Witness ==
    /\ BuildEntered /\ generateManifold
    /\ \E c \in VolumeCells : \E e \in 0..11 :
           /\ PairedAt(c, call.iso)
           /\ getDualPointCode(c[1], c[2], c[3], call.iso, 2 ^ e)
                  # FirstOfRow(getCellCode(c[1], c[2], c[3], call.iso), e)
    /\ \E c \in VolumeCells :
           /\ DirectionAt(c, call.iso) # NotProblematic
           /\ StepCell(c, DirectionAt(c, call.iso)) \notin VolumeCells
           /\ ~PairedAt(c, call.iso)
    /\ \E c \in VolumeCells : \E e \in 0..11 :
           getDualPointCode(c[1], c[2], c[3], call.iso, 2 ^ e) = 0

-----------------------------------------------------------------------------
(* The divisions of calculateDualPoint.                                    *)

\* the samples a and b at the two ends of edge e of cell c that the block of
\* calculateDualPoint for e reads; its denominator is (float)b - (float)a
EdgeEnds(c, e) ==
    LET g == EdgeGeometry[e]
        u == Unit(EdgeGeometry[e].axis)
    IN  <<Sample(gA(c[1] + g.off[1], c[2] + g.off[2], c[3] + g.off[3])),
          Sample(gA(c[1] + g.off[1] + u[1], c[2] + g.off[2] + u[2],
                    c[3] + g.off[3] + u[3]))>>

\* one end of edge e of cell c is below iso and the other is not
EndsDiffer(c, e, iso) ==
    \E s \in {EdgeEnds(c, e)} :
        (s[1] < iso /\ s[2] >= iso) \/ (s[1] >= iso /\ s[2] < iso)

\* the (cell, edge) pairs the blocks of the running loop iteration query
QueriedNow ==
    UNION {{f[k] : k \in 1..4} :
           f \in {IF call.soup THEN SoupFan(axis, cell[1], cell[2], cell[3])
                  ELSE SharedFan(axis, cell[1], cell[2], cell[3]) :
                  axis \in {a \in 0..2 :
                      /\ EdgeGuard(a, cell[1], cell[2], cell[3])
                      /\ \/ Entering(a, cell[1], cell[2], cell[3], call.iso)
                         \/ Exiting(a, cell[1], cell[2], cell[3], call.iso)}}}

\* C22: for every (cell, edge) pair build queries while emitting a quad, in
\* both modes and with either manifold setting, getDualPointCode returns a
\* non-zero code that contains the queried edge bit, and for every edge bit of
\* that code the two samples at the ends of that edge of that cell are one
\* below iso and one at or above it; so no denominator (float)b - (float)a of
\* calculateDualPoint is zero, points is not zero, and every component of
\* every vertex is finite.
C22_NoDivisionByZero ==
    /\ pc = "loop" =>
           \A q \in QueriedNow :
               \E code \in {getDualPointCode(q[1], q[2], q[3], call.iso, q[4])} :
                   /\ code # 0
                   /\ BitAnd(code, q[4]) = q[4]
                   /\ PointCount(code) > 0
                   /\ \A e \in EdgesOf[code] :
                          /\ EndsDiffer(<<q[1], q[2], q[3]>>, e, call.iso)
                          /\ EdgeEnds(<<q[1], q[2], q[3]>>, e)[2]
                                 # EdgeEnds(<<q[1], q[2], q[3]>>, e)[1]
                          /\ EdgeFraction(q[1], q[2], q[3], call.iso, e) # NonFinite
    /\ BuildDone =>
           \A i \in DOMAIN owners :
               /\ owners[i].code # 0
               /\ \A e \in EdgesOf[owners[i].code] : EndsDiffer(owners[i].cell, e, call.iso)
               /\ \A k \in 1..3 : vertices[i][k] # NonFinite

\* a manifold build is in a loop iteration that queries a cell whose code is
\* looked up inverted and whose row holds more than one dual point, the code
\* returned having more than one edge
C22_Witness ==
    /\ pc = "loop" /\ generateManifold
    /\ \E q \in QueriedNow :
           /\ PairedAt(<<q[1], q[2], q[3]>>, call.iso)
           /\ dualPointsList[255 - getCellCode(q[1], q[2], q[3], call.iso)][1] # 0
           /\ PointCount(getDualPointCode(q[1], q[2], q[3], call.iso, q[4])) > 1

-----------------------------------------------------------------------------
(* The number and the order of the quads.                                  *)

\* the two samples of the edge from the low corner of cell (x, y, z) along
\* axis are one below iso and one at or above it
LowEdgeStraddles(x, y, z, axis, iso) ==
    \E a \in {Sample(gA(x, y, z))},
       b \in {Sample(gA(x + Unit(axis)[1], y + Unit(axis)[2], z + Unit(axis)[3]))} :
        (a < iso /\ b >= iso) \/ (a >= iso /\ b < iso)

\* the triples <<x, y, z, axis>>: cell (x, y, z) of the reduced domain, its low
\* edge along axis straddling iso
StraddlingTriples ==
    {t \in {<<x, y, z, axis>> : x \in 0..(dims[0] - 3), y \in 0..(dims[1] - 3),
                                z \in 0..(dims[2] - 3), axis \in 0..2} :
        LowEdgeStraddles(t[1], t[2], t[3], t[4], call.iso)}

\* those with both coordinates perpendicular to the axis above 0
EmittingTriples ==
    {t \in StraddlingTriples : \A k \in 1..3 : k # t[4] + 1 => t[k] > 0}

\* the place of a triple in x-fastest cell order, x, y, z edge within a cell
Rank(t) == ((t[3] * dims[1] + t[2]) * dims[0] + t[1]) * 3 + t[4]

\* the quads emitted so far: soup mode appends four vertices per quad and
\* numbers the quads after the loops
EmittedSoFar == IF call.soup THEN Len(vertices) \div 4 ELSE Len(quads)

\* the triple of quad number i (from 1)
TripleOf(i) == <<QuadRoot(i)[1], QuadRoot(i)[2], QuadRoot(i)[3], QuadAxis(i) - 1>>

\* C23: the number of quads build emits equals the number of triples (cell
\* (x, y, z) with 0 <= x < dimX - 2, 0 <= y < dimY - 2, 0 <= z < dimZ - 2; axis)
\* such that the edge from the cell's low corner along that axis straddles iso
\* and the two coordinates perpendicular to the axis are both > 0; each cell
\* contributes between 0 and 3 quads, emitted in x-fastest cell order and in
\* x, y, z edge order within a cell.
C23_QuadCountAndOrder ==
    /\ pc = "loop" =>
           EmittedSoFar = Cardinality({t \in EmittingTriples :
                                          Rank(t) < Rank(<<cell[1], cell[2], cell[3], 0>>)})
    /\ BuildDone =>
           /\ Len(quads) = Cardinality(EmittingTriples)
           /\ \A i \in DOMAIN quads : TripleOf(i) \in EmittingTriples
           /\ \A i, j \in DOMAIN quads : i < j => Rank(TripleOf(i)) < Rank(TripleOf(j))
           /\ \A c \in LoopCells :
                  Cardinality({i \in DOMAIN quads :
                                  QuadRoot(i) = <<c[1], c[2], c[3]>>}) \in 0..3

\* a build has ended in which one cell contributed several quads, another
\* none, and a straddling edge of the reduced domain got no quad because a
\* perpendicular coordinate is 0
C23_Witness ==
    /\ BuildDone
    /\ Len(quads) >= 3
    /\ \E i, j \in DOMAIN quads : i # j /\ QuadRoot(i) = QuadRoot(j)
    /\ \E c \in LoopCells : \A i \in DOMAIN quads : QuadRoot(i) # <<c[1], c[2], c[3]>>
    /\ StraddlingTriples \ EmittingTriples # {}

-----------------------------------------------------------------------------
(* Pairs of problematic cells.                                             *)

\* the direction opposite to d
Opposite(d) == IF d % 2 = 1 THEN d - 1 ELSE d + 1

\* the manifold branch of getDualPointCode replaces the code of cell c
InvertedAt(c, iso) ==
    ManifoldCubeCode(c[1], c[2], c[3], iso, getCellCode(c[1], c[2], c[3], iso))
        # getCellCode(c[1], c[2], c[3], iso)

\* the cells with a problematic code whose neighbour across the face in the
\* stored direction is a cell of the volume with a problematic code
PairedCells ==
    {c \in VolumeCells :
        /\ DirectionAt(c, call.iso) # NotProblematic
        /\ StepCell(c, DirectionAt(c, call.iso)) \in VolumeCells
        /\ DirectionAt(StepCell(c, DirectionAt(c, call.iso)), call.iso) # NotProblematic}

\* C24: if cell A has a problematic code with direction d and the neighbour B
\* across the face in direction d, a cell of the volume, has a problematic
\* code too, then B's stored direction is the opposite of d, so that B's
\* neighbour in its direction is A; with generateManifold set, A's code is
\* inverted in getDualPointCode if and only if B's code is.
C24_InversionSymmetric ==
    BuildEntered =>
        \A a \in PairedCells :
            \E d \in {DirectionAt(a, call.iso)} :
            \E b \in {StepCell(a, d)} :
                /\ DirectionAt(b, call.iso) = Opposite(d)
                /\ StepCell(b, DirectionAt(b, call.iso)) = a
                /\ b \in PairedCells
                /\ generateManifold =>
                       /\ InvertedAt(a, call.iso) <=> InvertedAt(b, call.iso)
                       /\ InvertedAt(a, call.iso)

\* a manifold build is at its first cell on a volume in which a C16 cell and a
\* C19 cell share their ambiguous face, and both codes are inverted
C24_Witness ==
    /\ BuildEntered /\ generateManifold
    /\ \E a \in PairedCells :
           /\ getCellCode(a[1], a[2], a[3], call.iso) \in C16Codes
           /\ \E b \in {StepCell(a, DirectionAt(a, call.iso))} :
                  /\ getCellCode(b[1], b[2], b[3], call.iso) \in C19Codes
                  /\ InvertedAt(b, call.iso)
           /\ InvertedAt(a, call.iso)

-----------------------------------------------------------------------------
(* generateDualMCTable block by block: the head of the cube code loop, the *)
(* head of the start corner loop, one iteration of the traversal loop, the *)
(* store of a point code and the zeroing of the rest of the row are one    *)
(* step each.                                                              *)

generateDualMCTableBlock ==
    /\ gen.pc \in {"row", "corner", "pop", "store", "pad"}
    /\ gen' = GenStep(gen)
    /\ UNCHANGED engineVars

NextBlocks == generateDualMCTable \/ generateDualMCTableBlock

SpecBlocks == InitGen /\ [][NextBlocks]_vars

\* C25: while generateDualMCTable runs over all 256 codes, its three
\* assertions never fail (the popped corner is in the connected mask; a new
\* component is disjoint from the processed corners; the point code to store
\* is not zero), numDualPoints is below 4 when a point code is written and
\* never above 4, so that every write through cubeDualPointCodes stays in the
\* four entries of the row of the current code, and the corner stack never
\* holds more than 8 corners.
C25_GeneratorAssertionsAndBounds ==
    /\ (gen.pc = "pop" /\ gen.cornerStack # <<>>) =>
           BitAnd(gen.connectedCornersMask,
                  getMask(gen.cornerStack[Len(gen.cornerStack)])) # 0
    /\ gen.pc = "store" =>
           /\ BitAnd(gen.processedCornersMask, gen.connectedCornersMask) = 0
           /\ gen.dualPointCode # 0
           /\ gen.numDualPoints < RowLen
           /\ gen.i * RowLen + gen.numDualPoints \in (gen.i * RowLen)..(gen.i * RowLen + 3)
           /\ gen.i * RowLen + gen.numDualPoints \in DOMAIN gen.dualPointsList
    /\ gen.pc = "pad" =>
           \A d \in gen.numDualPoints..(RowLen - 1) :
               gen.i * RowLen + d \in DOMAIN gen.dualPointsList
    /\ gen.numDualPoints <= RowLen
    /\ Len(gen.cornerStack) <= 8
    /\ ~gen.assertFailed
    /\ ~gen.outOfRange

\* the generator is about to store the fourth point code of a row, for a code
\* whose inside corners are four isolated corners
C25_Witness ==
    /\ gen.pc = "store"
    /\ gen.numDualPoints = 3
    /\ gen.cubeMask = MaskOf({0, 3, 5, 6})
    /\ gen.dualPointCode # 0
    /\ gen.cornerStack = <<>>

-----------------------------------------------------------------------------
(* The indices passed to data.                                             *)

\* the positions of the eight corners of cell c, read by getCellCode
CellCorners(c) == {<<c[1] + i, c[2] + j, c[3] + k>> : i \in 0..1, j \in 0..1, k \in 0..1}

\* the cells getDualPointCode calls getCellCode for when asked for cell c: the
\* cell and, in the manifold branch, the neighbor it examines
CodeCells(c, iso) ==
    {<<c[1], c[2], c[3]>>} \cup
    (IF generateManifold /\ DirectionAt(c, iso) # NotProblematic
     THEN {n \in {StepCell(c, DirectionAt(c, iso))} :
              \E component \in {DirectionAt(c, iso) \div 2} :
                  n[component + 1] >= 0 /\ n[component + 1] < dims[component] - 1}
     ELSE {})

\* the positions of the two ends of the edges of pointCode in cell c, read by
\* calculateDualPoint
PointEnds(c, pointCode) ==
    UNION {{<<c[1] + g.off[1], c[2] + g.off[2], c[3] + g.off[3]>>,
            <<c[1] + g.off[1] + u[1], c[2] + g.off[2] + u[2], c[3] + g.off[3] + u[3]>>} :
           g \in {EdgeGeometry[e] : e \in EdgesOf[pointCode]},
           u \in {Unit(axis) : axis \in 0..2}} \cap CellCorners(c)

\* the positions whose sample the running loop iteration reads: in the
\* entering and exiting tests of the guarded blocks, in getCellCode for the
\* queried cells and the neighbors the manifold branch examines, and in
\* calculateDualPoint
PositionsRead ==
    UNION {{<<cell[1], cell[2], cell[3]>>,
            <<cell[1] + Unit(axis)[1], cell[2] + Unit(axis)[2], cell[3] + Unit(axis)[3]>>} :
           axis \in {a \in 0..2 : EdgeGuard(a, cell[1], cell[2], cell[3])}}
    \cup UNION {UNION {CellCorners(c) : c \in CodeCells(q, call.iso)} : q \in QueriedNow}
    \cup UNION {PointEnds(q, getDualPointCode(q[1], q[2], q[3], call.iso, q[4])) :
                q \in QueriedNow}

\* every position read in the running loop iteration is a position of the
\* volume and its index is an index of the buffer
ReadsInsideVolume ==
    pc = "loop" =>
        \A p \in PositionsRead :
            /\ p \in PositionsOf(dims)
            /\ gA(p[1], p[2], p[3]) \in 0..(dims[0] * dims[1] * dims[2] - 1)
            /\ gA(p[1], p[2], p[3]) \in DOMAIN volume.data

\* a < b for pairs of 16-bit halves
Below(a, b) == a[1] < b[1] \/ (a[1] = b[1] /\ a[2] < b[2])

\* C26: for every build with all extents >= 2, every index passed to data (in
\* the entering and exiting tests, in getCellCode for the four cells of a
\* quad and for the neighbor the manifold branch examines, and in
\* calculateDualPoint) lies in [0, dimX * dimY * dimZ), and every coordinate
\* used is inside the volume.
C26_AsStated ==
    /\ ReadsInsideVolume
    /\ pc = "keyed" =>
           \A q \in queries :
               /\ q.cell \in CornerPositions(dims)
               /\ q.linearizedCellID.kind = "value"
               /\ ~q.linearizedCellID.negative
               /\ Below(q.linearizedCellID.bits, expectedFileSize(dims))

-----------------------------------------------------------------------------
(* The shared-vertex map.                                                  *)

\* a shared-mode build is between two loop iterations or about to return
SharedBuildRunning == pc \in {"loop", "return"} /\ ~call.soup

-----------------------------------------------------------------------------
(* Builds with and without the manifold correction.                        *)

\* cells that share a face
FaceAdjacent(a, b) ==
    \E k \in 1..3 : (a[k] - b[k] \in {-1, 1}) /\ \A j \in 1..3 : j # k => a[j] = b[j]

\* the cells of the volume with a problematic code
ProblematicCells(iso) == {c \in VolumeCells : DirectionAt(c, iso) # NotProblematic}

\* the volume holds no two face-adjacent cells with problematic codes
NoProblematicPair(iso) ==
    \A a, b \in ProblematicCells(iso) : ~FaceAdjacent(a, b)

\* the pairs of returned results for the same iso value and output mode, one
\* with and one without generateManifold, the later of them returned last
LatestManifoldPairs ==
    IF pc = "idle" /\ results # <<>>
    THEN {<<i, Len(results)>> : i \in {j \in DOMAIN results :
              /\ results[j].iso = results[Len(results)].iso
              /\ results[j].soup = results[Len(results)].soup
              /\ results[j].manifold # results[Len(results)].manifold}}
    ELSE {}

\* C28: if the volume contains no pair of face-adjacent cells that both have
\* a problematic (C16 or C19) cell code, build with generateManifold = true
\* returns exactly the same vertex sequence and quad sequence as build with
\* generateManifold = false on the same input, in both output modes.
C28_SameMeshWithoutProblematicPair ==
    \A w \in LatestManifoldPairs :
        NoProblematicPair(results[w[1]].iso) =>
            /\ results[w[1]].vertices = results[w[2]].vertices
            /\ results[w[1]].quads = results[w[2]].quads

\* both builds of one output mode have returned the same mesh, with quads,
\* for a volume that holds a problematic cell but no problematic pair
C28_Witness ==
    \E w \in LatestManifoldPairs :
        /\ NoProblematicPair(results[w[1]].iso)
        /\ ProblematicCells(results[w[1]].iso) \cap LoopCells # {}
        /\ Len(results[w[1]].quads) >= 4
        /\ results[w[1]].vertices = results[w[2]].vertices
        /\ results[w[1]].quads = results[w[2]].quads

-----------------------------------------------------------------------------
(* Masks registered more than once.                                        *)

\* C29: during generateManifoldTable, whenever a cube mask is registered more
\* than once, it is registered with the same direction every time: no step
\* of registerConfigAxisRotations or exploreConfigRotations changes or
\* removes the direction a mask is registered with, so the final
\* problematicConfigs entry of a mask does not depend on the order in which
\* the rotations are explored.
C29_RegisteredDirectionKept ==
    [][gen.pc \in {"register", "nextCase"} =>
          \A mask \in DOMAIN gen.problematicConfigsMap :
              /\ mask \in DOMAIN gen'.problematicConfigsMap
              /\ gen'.problematicConfigsMap[mask] = gen.problematicConfigsMap[mask]]_vars

\* registerConfigAxisRotations has registered a mask of the second
\* representative for the second time: the roll of that mask has period two
C29_Witness ==
    /\ gen.pc = "register"
    /\ gen.rep = 1
    /\ gen.regI = 3
    /\ gen.regConfig \in DOMAIN gen.problematicConfigsMap
    /\ RollOfCase(gen.case, RollOfCase(gen.case, gen.regConfig)) = gen.regConfig
    /\ gen.problematicConfigsMap[gen.regConfig] = gen.ambiguousFaceDir
    /\ Cardinality(DOMAIN gen.problematicConfigsMap) < 24 + 4 * gen.case + gen.regI

-----------------------------------------------------------------------------
(* The grid edge of a quad.                                                *)

\* the number of the edge with mask edge
EdgeNumber(edge) == CHOOSE e \in 0..11 : 2 ^ e = edge

\* the positions of the two ends of edge number e of cell c, low end first,
\* under the edge geometry calculateDualPoint uses
EndPositions(c, e) ==
    <<[k \in 1..3 |-> c[k] + EdgeGeometry[e].off[k]],
      [k \in 1..3 |-> c[k] + EdgeGeometry[e].off[k] + Unit(EdgeGeometry[e].axis)[k]]>>

\* the four cubes incident to the grid edge from position r along axis
IncidentCubes(r, axis) ==
    {<<r[1] - d[1], r[2] - d[2], r[3] - d[3]>> :
        d \in {t \in [1..3 -> {0, 1}] : t[axis + 1] = 0}}

\* the fans of the blocks of the running loop iteration that emit a quad
FansNow ==
    {<<axis, IF call.soup THEN SoupFan(axis, cell[1], cell[2], cell[3])
             ELSE SharedFan(axis, cell[1], cell[2], cell[3])>> :
        axis \in {a \in 0..2 :
            /\ EdgeGuard(a, cell[1], cell[2], cell[3])
            /\ \/ Entering(a, cell[1], cell[2], cell[3], call.iso)
               \/ Exiting(a, cell[1], cell[2], cell[3], call.iso)}}

\* C30: for every quad build emits, the four (cell, edge) pairs it queries
\* denote one and the same grid edge: the edge queried in each of the four
\* cells has, under the edge geometry of calculateDualPoint, the two end
\* positions of the crossed edge rooted at (x, y, z), and the four cells are
\* exactly the four cubes incident to that edge.
C30_FanAroundOneGridEdge ==
    /\ pc = "loop" =>
           \A w \in FansNow :
               /\ \A k \in 1..4 :
                      EndPositions(<<w[2][k][1], w[2][k][2], w[2][k][3]>>,
                                   EdgeNumber(w[2][k][4]))
                          = <<[j \in 1..3 |-> cell[j]],
                              [j \in 1..3 |-> cell[j] + Unit(w[1])[j]]>>
               /\ {<<w[2][k][1], w[2][k][2], w[2][k][3]>> : k \in 1..4}
                      = IncidentCubes(cell, w[1])
               /\ Cardinality({w[2][k] : k \in 1..4}) = 4
    /\ BuildDone =>
           \A i \in DOMAIN quads :
               {<<QuadCells(i)[k][1], QuadCells(i)[k][2], QuadCells(i)[k][3]>> : k \in 1..4}
                   = IncidentCubes(QuadRoot(i), QuadAxis(i) - 1)

\* a loop iteration is at a cell whose x, y and z edges are all crossed and
\* guarded: three fans, around three different grid edges
C30_Witness ==
    /\ pc = "loop"
    /\ Cardinality(FansNow) = 3
    /\ \A w \in FansNow :
           {<<w[2][k][1], w[2][k][2], w[2][k][3]>> : k \in 1..4} = IncidentCubes(cell, w[1])

====
